---- MODULE Spec2Model ----
(***************************************************************************)
(* Change tracking and save/sync of gel-python models.                     *)
(*                                                                         *)
(* The model follows one object type, User, with a scalar property `name`, *)
(* a multi link `friends` (a tracked collection) and a computed multi      *)
(* property `tags`.  Python instances are slots 1..NSlots; a link holds    *)
(* slots (object references), never identities.                            *)
(***************************************************************************)
EXTENDS Integers, FiniteSets, Sequences, TLC

\* ------------------------------------------------------------------ bounds

NSlots == 2

MaxOps == 2

MaxKnownId == 1

Slots == 1..NSlots

KnownIds == 1..MaxKnownId

Vals == {0, 1}

\* --------------------------------------------------------------- constants

DLIST_READ_WRITE == "READ_WRITE"

DLIST_WRITE == "WRITE"

ReadOps == {"__len__", "__iter__", "__contains__", "__bool__"}

StaleError == "cannot access unfetched data"

VARIABLES
    ent,      \* slot -> the caller's instance (GelModel with its tracked list)
    exec,     \* the SaveExecutor of the call in flight
    nextId,   \* next identity the store hands out
    outcome,  \* how the last save/sync call ended, "none" once the caller acts
    last,     \* the caller's last operation on an instance
    snap,     \* the instances as they were when the call in flight started
    nops,     \* number of caller operations so far
    aux       \* state of the component models (roles, link properties, batches, traversal)

vars == <<ent, exec, nextId, outcome, last, snap, nops, aux>>

\* ------------------------------------------------------- tracked collection

Absent ==
    [ctor |-> "absent", id |-> 0, name |-> 0, changed |-> {},
     mode |-> DLIST_WRITE, base |-> {}, added |-> {}, removed |-> {},
     tags |-> "unset", ptrs_set |-> {}]

\* Members the collection knows of: the base snapshot with the deltas applied.
Known(e) == (e.base \cup e.added) \ e.removed

UnfetchedCollection ==
    [mode |-> DLIST_WRITE, base |-> {}, added |-> {}, removed |-> {}]

\* `model.pointer = [ ... ]`: replace with new data.
ReplacedCollection(items) ==
    [mode |-> DLIST_READ_WRITE, base |-> items, added |-> {}, removed |-> {}]

InitialCollectionAlwaysRW(id, given, friends) ==
    IF ~given
    THEN [mode |-> DLIST_READ_WRITE, base |-> {}, added |-> {}, removed |-> {}]
    ELSE ReplacedCollection(friends)

\* The collection of a freshly constructed instance: User(), User(known_id),
\* User(friends=[..]), User(known_id, friends=[..]).
InitialCollection(id, given, friends) ==
    IF ~given
    THEN IF id = 0
         THEN [mode |-> DLIST_READ_WRITE, base |-> {},
               added |-> {}, removed |-> {}]
         ELSE UnfetchedCollection
    ELSE ReplacedCollection(friends)

ReplaceKeepsMode(c, items) ==
    [c EXCEPT !.base = items, !.added = {}, !.removed = {}]

\* `model.pointer = items` on an existing collection.
replace(c, items) == ReplacedCollection(items)

WithCollection(e, c) ==
    [e EXCEPT !.mode = c.mode, !.base = c.base,
              !.added = c.added, !.removed = c.removed]

CollectionOf(e) ==
    [mode |-> e.mode, base |-> e.base, added |-> e.added, removed |-> e.removed]

AppendKeepsRemoved(c, x) ==
    [c EXCEPT !.added = @ \cup {x}]

\* `model.pointer.append(x)`: always a `+=`.
append(c, x) ==
    [c EXCEPT !.added = @ \cup {x}, !.removed = @ \ {x}]

\* `model.pointer.remove(x)`: always a `-=`.
remove(c, x) ==
    [c EXCEPT !.removed = @ \cup {x}, !.added = @ \ {x}]

ClearRejectedInWrite(c) ==
    IF c.mode = DLIST_WRITE THEN c
    ELSE [c EXCEPT !.added = {}, !.removed = c.base]

ClearAllKnown(c) ==
    IF c.mode = DLIST_WRITE
    THEN [c EXCEPT !.added = {}, !.removed = {}]
    ELSE [c EXCEPT !.added = {}, !.removed = Known(c)]

ClearToWrite(c) ==
    [c EXCEPT !.added = {}, !.removed = IF c.mode = DLIST_WRITE THEN {} ELSE c.base,
              !.mode = DLIST_WRITE]

\* `model.pointer.clear()`: in write mode drop the pending changes; in
\* read-write mode drop the pending additions and `-=` the members the
\* store is known to hold.
clear(c) ==
    IF c.mode = DLIST_WRITE
    THEN [c EXCEPT !.added = {}, !.removed = {}]
    ELSE [c EXCEPT !.added = {}, !.removed = c.base]

ReadAllowedWithPending(c, op) ==
    IF c.mode = DLIST_WRITE /\ c.added = {}
    THEN StaleError
    ELSE "ok"

\* __iter__, __len__, __contains__, __bool__.
read(c, op) ==
    IF c.mode = DLIST_WRITE THEN StaleError ELSE "ok"

\* ------------------------------------------------------------ object codec

PointerNames == {"name", "friends", "tags"}

MultiPointers == {"friends", "tags"}

\* adapt_to_return_type: the collection factory of a pointer of User.  A
\* multi pointer typed as a tracked collection keeps its type, a computed
\* multi property is a tuple, a single pointer has no factory.
dlist_factory(ptr) ==
    CASE ptr = "friends" -> "LinkSet"
      [] ptr = "tags" -> "tuple"
      [] OTHER -> "None"

DecodeFieldWriteMode(factory, elem) ==
    CASE factory = "tuple" -> [kind |-> "tuple", mode |-> "none", items |-> elem]
      [] factory = "None" -> [kind |-> "raw", mode |-> "none", items |-> elem]
      [] OTHER -> [kind |-> "dlist", mode |-> DLIST_WRITE, items |-> elem]

\* ObjectCodec.decode, one element of the record.
DecodeField(factory, elem) ==
    CASE factory = "tuple" -> [kind |-> "tuple", mode |-> "none", items |-> elem]
      [] factory = "None" -> [kind |-> "raw", mode |-> "none", items |-> elem]
      [] OTHER -> [kind |-> "dlist", mode |-> DLIST_READ_WRITE, items |-> elem]

\* `.limit(n)` on a fetched link: the n lowest members.
Limit(F, n) == {x \in F : Cardinality({y \in F : y < x}) < n}

\* __gel_model_construct__ of a decoded record: pointers of the shape hold
\* what the codec decoded, a multi link left out of the shape is unfetched.
ModelConstruct(id, nm, shape, friends) ==
    LET fr == DecodeField(dlist_factory("friends"), friends)
        tg == DecodeField(dlist_factory("tags"), {})
        c == IF "friends" \in shape
             THEN [mode |-> fr.mode, base |-> fr.items,
                   added |-> {}, removed |-> {}]
             ELSE UnfetchedCollection
    IN  [ctor |-> "fetched", id |-> id, name |-> nm, changed |-> {},
         mode |-> c.mode, base |-> c.base, added |-> c.added,
         removed |-> c.removed,
         tags |-> IF "tags" \in shape THEN tg.kind ELSE "unset",
         ptrs_set |-> {"name"} \cup shape]

\* ---------------------------------------------------------------- save plan

RECURSIVE Closure(_, _, _)
Closure(E, S, n) ==
    IF n = 0 THEN S
    ELSE Closure(E, S \cup UNION {Known(E[o]) : o \in S}, n - 1)

ReachableRootsOnly(E, roots) == roots

ReachableMergedById(E, roots) ==
    LET all == Closure(E, roots, NSlots)
    IN  {o \in all : ~\E y \in all : /\ y < o
                                     /\ E[y].id # 0
                                     /\ E[y].id = E[o].id}

\* The objects passed to save/sync and every object reachable via links.
Reachable(E, roots) == Closure(E, roots, NSlots)

\* __gel_get_changed_fields__ restricted to properties.
ChangedProps(e) == e.changed \cap {"name"}

ModelChangeFolded(E, o) ==
    [obj |-> o,
     kind |-> IF E[o].id = 0 THEN "INSERT" ELSE "UPDATE",
     props |-> ChangedProps(E[o]),
     assign |-> "friends" \in E[o].changed \/ E[o].added # {},
     value |-> Known(E[o]),
     add |-> {},
     remove |-> E[o].removed]

\* The ModelChange of one object: the changed properties, and for the multi
\* link a `:=` when it was assigned, a `+=` of the added and a `-=` of the
\* removed items.
ModelChange(E, o) ==
    [obj |-> o,
     kind |-> IF E[o].id = 0 THEN "INSERT" ELSE "UPDATE",
     props |-> ChangedProps(E[o]),
     assign |-> "friends" \in E[o].changed,
     value |-> IF "friends" \in E[o].changed THEN E[o].base ELSE {},
     add |-> E[o].added,
     remove |-> E[o].removed]

HasChangesAlways(e) == TRUE

\* Whether an object has anything to save.
HasChanges(e) ==
    e.id = 0 \/ e.changed # {} \/ e.added # {} \/ e.removed # {}

\* make_plan: one ModelChange per reachable object that is new or changed.
make_plan(E, roots) ==
    {ModelChange(E, o) : o \in {r \in Reachable(E, roots) : HasChanges(E[r])}}

BatchKeyKindOnly(ch) ==
    [kind |-> ch.kind, props |-> {}, assign |-> FALSE,
     adds |-> FALSE, removes |-> FALSE]

\* What the query of a change looks like; changes with the same query are
\* one QueryBatch.
BatchKey(ch) ==
    [kind |-> ch.kind, props |-> ch.props, assign |-> ch.assign,
     adds |-> ch.add # {}, removes |-> ch.remove # {}]

Batches(plan, kind) == {BatchKey(ch) : ch \in {c \in plan : c.kind = kind}}

BatchChanges(plan, key) == {ch \in plan : BatchKey(ch) = key}

\* ------------------------------------------------------------ save executor

NoSnap == [o \in Slots |-> Absent]

\* What an operation found: the collection and the changed fields.
PreOf(e) ==
    [mode |-> e.mode, base |-> e.base, added |-> e.added,
     removed |-> e.removed, changed |-> e.changed]

NoLast == [op |-> "none", o |-> 0, x |-> 0, items |-> {},
           pre |-> PreOf(Absent), res |-> {}]

\* Nothing was refetched for the object.
NotRefetched ==
    [got |-> FALSE, name |-> 0, friends |-> {}, shape |-> {}, filter |-> {}]

\* The component models are not in use.
NoAux == [model |-> "none"]

IdleExec ==
    [phase |-> "idle", sync |-> FALSE, roots |-> {}, visited |-> {},
     plan |-> {}, done |-> {}, new_ids |-> [o \in Slots |-> 0],
     refetched |-> [o \in Slots |-> NotRefetched],
     issued |-> 0, refetches |-> 0, resave |-> FALSE,
     commit_started |-> FALSE, error |-> "none"]

Alive == {o \in Slots : ent[o].ctor # "absent"}

Idle == exec.phase = "idle"

\* Instances take the slots in order.
NextSlot == Cardinality(Alive) + 1

Init ==
    /\ ent = [o \in Slots |-> Absent]
    /\ exec = IdleExec
    /\ nextId = MaxKnownId + 1
    /\ outcome = "none"
    /\ last = NoLast
    /\ snap = NoSnap
    /\ nops = 0
    /\ aux = NoAux

\* The caller touched the graph: the executor of the last call is gone.
CallerActs(l) ==
    /\ exec' = IdleExec
    /\ outcome' = "none"
    /\ snap' = NoSnap
    /\ last' = l
    /\ UNCHANGED <<nextId, aux>>

Counted ==
    /\ nops < MaxOps
    /\ nops' = nops + 1

\* u = User(name=nm), User(known_id), User(friends=[..]), ...
Construct(o, id, given, friends) ==
    /\ Idle
    /\ o = NextSlot
    /\ LET c == InitialCollection(id, given, friends)
       IN ent' = [ent EXCEPT ![o] =
              [ctor |-> IF id = 0 THEN "new" ELSE "known_id",
               id |-> id, name |-> 0,
               changed |-> (IF id = 0 THEN {"name"} ELSE {})
                           \cup (IF given THEN {"friends"} ELSE {}),
               mode |-> c.mode, base |-> c.base, added |-> c.added,
               removed |-> c.removed, tags |-> "unset",
               ptrs_set |-> (IF id = 0 THEN {"name"} ELSE {})
                            \cup (IF given THEN {"friends"} ELSE {})]]
    /\ CallerActs([NoLast EXCEPT !.op = "construct", !.o = o])
    /\ UNCHANGED nops

\* u = client.get(User.select('*', friends=..., tags=...)): the codec builds
\* the instance and one instance per fetched friend.
Fetch(o, id, shape, F, lim) ==
    /\ Idle
    /\ o = NextSlot
    /\ F \in {{}} \cup {o + 1 .. o + n : n \in 1..NSlots}
    /\ F \subseteq Slots
    /\ F # {} => "friends" \in shape
    /\ LET got == Limit(F, lim)
       IN ent' = [x \in Slots |->
                    IF x = o THEN ModelConstruct(id, 0, shape, got)
                    ELSE IF x \in got THEN ModelConstruct(id, 0, {}, {})
                    ELSE ent[x]]
    /\ CallerActs([NoLast EXCEPT !.op = "fetch", !.o = o, !.x = lim,
                                 !.items = shape])
    /\ UNCHANGED nops

\* u.name = v
SetName(o, v) ==
    /\ Idle /\ Counted
    /\ ent[o].ctor # "absent"
    /\ ent' = [ent EXCEPT ![o].name = v, ![o].changed = @ \cup {"name"},
                          ![o].ptrs_set = @ \cup {"name"}]
    /\ CallerActs([NoLast EXCEPT !.op = "setname", !.o = o])

\* u.friends = [ ... ]
Replace(o, items) ==
    /\ Idle /\ Counted
    /\ ent[o].ctor # "absent"
    /\ items \subseteq Alive
    /\ ent' = [ent EXCEPT ![o] =
                 [WithCollection(@, replace(CollectionOf(@), items))
                    EXCEPT !.changed = @ \cup {"friends"},
                           !.ptrs_set = @ \cup {"friends"}]]
    /\ CallerActs([NoLast EXCEPT !.op = "replace", !.o = o, !.items = items,
                                 !.pre = PreOf(ent[o])])

\* u.friends.append(x)
AppendItem(o, x) ==
    /\ Idle /\ Counted
    /\ ent[o].ctor # "absent"
    /\ x \in Alive
    /\ ent' = [ent EXCEPT ![o] = WithCollection(@, append(CollectionOf(@), x))]
    /\ CallerActs([NoLast EXCEPT !.op = "append", !.o = o, !.x = x,
                                 !.pre = PreOf(ent[o]), !.res = {"ok"}])

\* u.friends.remove(x), u.friends -= x
RemoveItem(o, x) ==
    /\ Idle /\ Counted
    /\ ent[o].ctor # "absent"
    /\ x \in Alive
    /\ ent' = [ent EXCEPT ![o] = WithCollection(@, remove(CollectionOf(@), x))]
    /\ CallerActs([NoLast EXCEPT !.op = "remove", !.o = o, !.x = x,
                                 !.pre = PreOf(ent[o]), !.res = {"ok"}])

\* u.friends.clear()
Clear(o) ==
    /\ Idle /\ Counted
    /\ ent[o].ctor # "absent"
    /\ ent' = [ent EXCEPT ![o] = WithCollection(@, clear(CollectionOf(@)))]
    /\ CallerActs([NoLast EXCEPT !.op = "clear", !.o = o, !.pre = PreOf(ent[o]),
                                 !.res = {"ok"}])

\* len(u.friends), iter(u.friends), x in u.friends, bool(u.friends)
Read(o) ==
    /\ Idle
    /\ ent[o].ctor # "absent"
    /\ last' = [NoLast EXCEPT !.op = "read", !.o = o, !.pre = PreOf(ent[o]),
                   !.res = {read(CollectionOf(ent[o]), op) : op \in ReadOps}]
    /\ UNCHANGED <<ent, exec, nextId, outcome, snap, nops, aux>>

\* client.save(*roots) / client.sync(*roots): _save_impl starts.
BeginCall(roots, sync) ==
    /\ Idle /\ Counted
    /\ roots # {} /\ roots \subseteq Alive
    /\ exec' = [IdleExec EXCEPT !.phase = "plan", !.sync = sync,
                                !.roots = roots,
                                !.resave = (outcome = "committed"
                                            /\ exec.roots = roots)]
    /\ snap' = ent
    /\ outcome' = "none"
    /\ last' = [NoLast EXCEPT !.op = IF sync THEN "sync" ELSE "save"]
    /\ UNCHANGED <<ent, nextId, aux>>

\* What a link target is to the store: its identity, or the instance itself
\* while it has none.
TargetKey(E, x) ==
    IF E[x].id = 0 THEN <<"new", x>> ELSE <<"id", E[x].id>>

TargetKeys(E, S) == {TargetKey(E, x) : x \in S}

\* Two instances of one stored object whose pending changes disagree: the
\* same property set to different values, the link assigned different
\* targets, or a target added on one and removed on the other.
PendingConflict(E, a, b) ==
    /\ a # b
    /\ E[a].id # 0 /\ E[a].id = E[b].id
    /\ \/ /\ "name" \in E[a].changed \cap E[b].changed
          /\ E[a].name # E[b].name
       \/ /\ "friends" \in E[a].changed \cap E[b].changed
          /\ TargetKeys(E, E[a].base) # TargetKeys(E, E[b].base)
       \/ TargetKeys(E, E[a].added) \cap TargetKeys(E, E[b].removed) # {}

NoIdentityConflict(E, S) == FALSE

\* Whether the objects of a call hold an identity conflict.
IdentityConflict(E, S) ==
    \E a \in S, b \in S : PendingConflict(E, a, b)

\* The call raised IdentityConflictError while planning: no query was issued.
RaiseIdentityConflict ==
    /\ exec.phase = "plan"
    /\ IdentityConflict(ent, Reachable(ent, exec.roots))
    /\ exec' = [IdleExec EXCEPT !.commit_started = exec.commit_started,
                                !.issued = exec.issued,
                                !.error = "IdentityConflictError"]
    /\ outcome' = "failed"
    /\ UNCHANGED <<ent, nextId, last, snap, nops, aux>>

\* Make a save plan.
MakePlan ==
    /\ exec.phase = "plan"
    /\ ~IdentityConflict(ent, Reachable(ent, exec.roots))
    /\ exec' = [exec EXCEPT !.phase = "insert",
                            !.visited = Reachable(ent, exec.roots),
                            !.plan = make_plan(ent, exec.roots)]
    /\ UNCHANGED <<ent, nextId, outcome, last, snap, nops, aux>>

RoundKind == IF exec.phase = "insert" THEN "INSERT" ELSE "UPDATE"

PendingBatchesAnyKind ==
    IF exec.phase \in {"insert", "update"}
    THEN (Batches(exec.plan, "INSERT") \cup Batches(exec.plan, "UPDATE"))
            \ exec.done
    ELSE {}

\* The batches of the round in progress that are still to be executed.
PendingBatches ==
    IF exec.phase \in {"insert", "update"}
    THEN Batches(exec.plan, RoundKind) \ exec.done
    ELSE {}

\* Identities the store returns for the inserts of one batch, lowest slot
\* first.
InsertedIds(objs) ==
    [o \in Slots |->
        IF o \in objs
        THEN nextId + Cardinality({y \in objs : y < o})
        ELSE exec.new_ids[o]]

RecordInsertedOntoUser(key, objs) ==
    /\ exec' = [exec EXCEPT !.done = @ \cup {key},
                            !.issued = @ + 1,
                            !.new_ids = IF key.kind = "INSERT"
                                        THEN InsertedIds(objs) ELSE @]
    /\ ent' = [o \in Slots |->
                 IF key.kind = "INSERT" /\ o \in objs
                 THEN [ent[o] EXCEPT !.id = InsertedIds(objs)[o]]
                 ELSE ent[o]]

RecordInsertedNotDone(key, objs) ==
    /\ exec' = [exec EXCEPT !.issued = @ + 1,
                            !.new_ids = IF key.kind = "INSERT"
                                        THEN InsertedIds(objs) ELSE @]
    /\ UNCHANGED ent

\* QueryBatch.record_inserted_data: the executor keeps what the query
\* returned; the caller's instances are not touched.
record_inserted_data(key, objs) ==
    /\ exec' = [exec EXCEPT !.done = @ \cup {key},
                            !.issued = @ + 1,
                            !.new_ids = IF key.kind = "INSERT"
                                        THEN InsertedIds(objs) ELSE @]
    /\ UNCHANGED ent

\* A batch query was executed and its result recorded.
ExecBatchOk(key) ==
    /\ key \in PendingBatches
    /\ LET objs == {ch.obj : ch \in BatchChanges(exec.plan, key)}
       IN /\ record_inserted_data(key, objs)
          /\ nextId' = IF key.kind = "INSERT"
                       THEN nextId + Cardinality(objs) ELSE nextId
    /\ UNCHANGED <<outcome, last, snap, nops, aux>>

AbortKeepsExecutor ==
    /\ exec' = [exec EXCEPT !.error = "BatchExecutionError"]
    /\ outcome' = "failed"
    /\ UNCHANGED <<ent, nextId, last, snap, nops, aux>>

\* The call raised: the executor is dropped, nothing is committed.
Abort ==
    /\ exec' = [IdleExec EXCEPT !.commit_started = exec.commit_started,
                                !.issued = exec.issued]
    /\ outcome' = "failed"
    /\ UNCHANGED <<ent, nextId, last, snap, nops, aux>>

CancelIgnored ==
    /\ exec.phase \in {"insert", "update", "refetch"}
    /\ exec' = [exec EXCEPT !.phase = "commit", !.error = "CancelledError"]
    /\ UNCHANGED <<ent, nextId, outcome, last, snap, nops, aux>>

\* The call was cancelled between two network operations of a round: the
\* operations issued so far have completed, the call raises and is over.
Cancel ==
    /\ exec.phase \in {"insert", "update", "refetch"}
    /\ exec' = [IdleExec EXCEPT !.commit_started = exec.commit_started,
                                !.issued = exec.issued,
                                !.error = "CancelledError"]
    /\ outcome' = "failed"
    /\ UNCHANGED <<ent, nextId, last, snap, nops, aux>>

\* A batch query failed.
ExecBatchFail(key) ==
    /\ key \in PendingBatches
    /\ Abort

NextRoundNoBarrier ==
    /\ exec.phase \in {"insert", "update"}
    /\ exec' = [exec EXCEPT !.phase =
                  IF exec.phase = "insert" THEN "update"
                  ELSE IF exec.sync THEN "refetch" ELSE "commit",
                            !.done = {}]
    /\ UNCHANGED <<ent, nextId, outcome, last, snap, nops, aux>>

NextRoundAlwaysRefetch ==
    /\ exec.phase \in {"insert", "update"}
    /\ PendingBatches = {}
    /\ exec' = [exec EXCEPT !.phase =
                  IF exec.phase = "insert" THEN "update" ELSE "refetch",
                            !.done = {}]
    /\ UNCHANGED <<ent, nextId, outcome, last, snap, nops, aux>>

\* All batches of the round are done: on to the next round.
NextRound ==
    /\ exec.phase \in {"insert", "update"}
    /\ PendingBatches = {}
    /\ exec' = [exec EXCEPT !.phase =
                  IF exec.phase = "insert" THEN "update"
                  ELSE IF exec.sync THEN "refetch" ELSE "commit",
                            !.done = {}]
    /\ UNCHANGED <<ent, nextId, outcome, last, snap, nops, aux>>

\* ------------------------------------------------------------------ refetch

RefetchFilterFieldOnly(e) == Known(e)

\* The filter of a refetched multi link: the link targets held by the Python
\* field and the targets of the delta.
RefetchFilter(e) == Known(e) \cup e.added \cup e.removed

RefetchShapeAll(e) == PointerNames

\* Pointers refetched for an object: every field of a new object, the
\* fields previously set or fetched of an existing one.
RefetchShape(e) ==
    IF e.id = 0 THEN PointerNames ELSE e.ptrs_set

\* The identity of an object of the call: its own, or the one its insert
\* returned.
IdOf(o) == IF ent[o].id = 0 THEN exec.new_ids[o] ELSE ent[o].id

\* The lowest visited instance of the stored object that o stands for.
Rep(o) ==
    CHOOSE y \in exec.visited :
        /\ IdOf(y) = IdOf(o)
        /\ \A z \in exec.visited : IdOf(z) = IdOf(o) => y <= z

\* What a refetch query may return for the visited objects.  The store
\* answers per stored object: v[Rep(o)] is the name it holds for the object
\* of o, held[Rep(o)] the objects its link holds.  The query asks for the
\* refetch shape of o and, of the link, for the targets of the filter; the
\* targets returned are objects of the call (existing or just inserted).
RefetchResult(v, held) ==
    [o \in Slots |->
        IF o \in exec.visited
        THEN [got |-> TRUE, name |-> v[Rep(o)],
              friends |-> {x \in RefetchFilter(ent[o]) \cap exec.visited :
                              Rep(x) \in held[Rep(o)]},
              shape |-> RefetchShape(ent[o]),
              filter |-> RefetchFilter(ent[o])]
        ELSE NotRefetched]

RecordRefetchedOntoUser(data) ==
    /\ exec' = [exec EXCEPT !.refetched = data, !.refetches = @ + 1,
                            !.phase = "commit"]
    /\ ent' = [o \in Slots |->
                 IF data[o].got THEN [ent[o] EXCEPT !.name = data[o].name]
                 ELSE ent[o]]

\* QueryRefetch.record_refetched_data: kept in the executor.
record_refetched_data(data) ==
    /\ exec' = [exec EXCEPT !.refetched = data, !.refetches = @ + 1,
                            !.phase = "commit"]
    /\ UNCHANGED ent

\* The refetch query was executed and its result recorded.
RefetchOk(v, held) ==
    /\ exec.phase = "refetch"
    /\ record_refetched_data(RefetchResult(v, held))
    /\ UNCHANGED <<nextId, outcome, last, snap, nops, aux>>

\* The refetch query failed.
RefetchFail ==
    /\ exec.phase = "refetch"
    /\ Abort

\* ------------------------------------------------------------------- commit

ApplyIdAlways(e, id) == [e EXCEPT !.id = id]

\* Ids are applied to new objects.
apply_id(e, id) == IF e.id = 0 THEN [e EXCEPT !.id = id] ELSE e

\* _apply_refetched_data_shape: refetch data is applied to the instance, for
\* the pointers of its refetch shape.
apply_refetched(e, shape, r) ==
    [e EXCEPT !.name = IF "name" \in shape THEN r.name ELSE @,
              !.tags = IF "tags" \in shape
                       THEN DecodeField(dlist_factory("tags"), {}).kind ELSE @,
              !.base = IF "friends" \in shape /\ e.mode = DLIST_READ_WRITE
                       THEN r.friends ELSE @,
              !.added = IF "friends" \in shape /\ e.mode = DLIST_READ_WRITE
                        THEN {} ELSE @,
              !.removed = IF "friends" \in shape /\ e.mode = DLIST_READ_WRITE
                          THEN {} ELSE @,
              !.ptrs_set = @ \cup shape]

CommitDropsDeltas(e) ==
    [e EXCEPT !.changed = {}, !.added = {}, !.removed = {}]

CommitForgetsAdded(e) ==
    [e EXCEPT !.changed = {},
              !.base = IF e.mode = DLIST_READ_WRITE THEN e.base \ e.removed
                       ELSE {},
              !.added = {},
              !.removed = {}]

CommitKeepsAdded(e) ==
    [e EXCEPT !.changed = {},
              !.base = IF e.mode = DLIST_READ_WRITE THEN Known(e) ELSE {},
              !.removed = {}]

\* _commit_recursive on one object: reset the changed fields flags and the
\* added and removed items of its tracked list.
commit_recursive(e) ==
    [e EXCEPT !.changed = {},
              !.base = IF e.mode = DLIST_READ_WRITE THEN Known(e) ELSE {},
              !.added = {},
              !.removed = {}]

CommitAppliesRefetched ==
    /\ exec.phase = "commit"
    /\ ent' = [o \in Slots |->
                 IF o \notin exec.visited THEN ent[o]
                 ELSE LET a == apply_id(ent[o], exec.new_ids[o])
                          b == apply_refetched(a, RefetchShape(ent[o]),
                                               exec.refetched[o])
                      IN commit_recursive(b)]
    /\ exec' = [IdleExec EXCEPT !.roots = exec.roots, !.sync = exec.sync,
                                !.commit_started = TRUE]
    /\ outcome' = "committed"
    /\ snap' = NoSnap
    /\ UNCHANGED <<nextId, last, nops, aux>>

\* SaveExecutor._commit.
Commit ==
    /\ exec.phase = "commit"
    /\ ent' = [o \in Slots |->
                 IF o \notin exec.visited THEN ent[o]
                 ELSE LET a == apply_id(ent[o], exec.new_ids[o])
                          b == IF exec.sync
                               THEN apply_refetched(a, RefetchShape(ent[o]),
                                                    exec.refetched[o])
                               ELSE a
                      IN commit_recursive(b)]
    /\ exec' = [IdleExec EXCEPT !.roots = exec.roots, !.sync = exec.sync,
                                !.commit_started = TRUE]
    /\ outcome' = "committed"
    /\ snap' = NoSnap
    /\ UNCHANGED <<nextId, last, nops, aux>>

\* --------------------------------------------------------------------- spec

BatchKeys ==
    [kind : {"INSERT", "UPDATE"}, props : SUBSET {"name"},
     assign : BOOLEAN, adds : BOOLEAN, removes : BOOLEAN]

Next ==
    \/ \E o \in Slots, id \in {0} \cup KnownIds :
          \/ Construct(o, id, FALSE, {})
          \/ \E friends \in SUBSET Alive : Construct(o, id, TRUE, friends)
    \/ \E o \in Slots, id \in KnownIds, shape \in SUBSET MultiPointers,
          F \in SUBSET Slots, lim \in 0..NSlots :
          Fetch(o, id, shape, F, lim)
    \/ \E o \in Slots, v \in Vals : SetName(o, v)
    \/ \E o \in Slots, items \in SUBSET Slots : Replace(o, items)
    \/ \E o \in Slots, x \in Slots : AppendItem(o, x)
    \/ \E o \in Slots, x \in Slots : RemoveItem(o, x)
    \/ \E o \in Slots : Clear(o)
    \/ \E o \in Slots : Read(o)
    \/ \E roots \in SUBSET Slots, sync \in BOOLEAN : BeginCall(roots, sync)
    \/ MakePlan
    \/ RaiseIdentityConflict
    \/ \E key \in BatchKeys : ExecBatchOk(key)
    \/ \E key \in BatchKeys : ExecBatchFail(key)
    \/ NextRound
    \/ \E v \in [Slots -> Vals], held \in [Slots -> SUBSET Slots] :
          RefetchOk(v, held)
    \/ RefetchFail
    \/ Cancel
    \/ Commit

Spec == Init /\ [][Next]_vars

\* ============================================ component model: the commit
\* SaveExecutor._commit of one sync in detail, with the instances a logical
\* object has during the call: the user instance, the batch instance of a
\* new object (the decoded result of its insert, kept in new_objects) and
\* the refetch data.  Instance 1 is an existing object whose link is
\* refetched; the other instances are the other objects of the call.

NCommitSlots == 2

NCommitIds == 3

CommitSlots == 1..NCommitSlots

CommitIds == 1..NCommitIds

UserInstance(o) == [role |-> "user", n |-> o]

BatchInstance(o) == [role |-> "batch", n |-> o]

\* A new object with only `id`.
Placeholder(id) == [role |-> "placeholder", n |-> id]

\* The name the store holds for an identity.
StoredName(c, id) == (c.v + id) % 2

\* The calls whose commit is about to start: which objects are new and
\* which identity their insert returned, the targets the link of instance 1
\* holds (one per identity), the identities the refetch returned for the
\* link, the names the inserts returned.
CommitStarts ==
    {[model |-> "commit", pc |-> "ids",
      new |-> nw, new_ids |-> ids,
      id |-> [o \in CommitSlots |-> IF o \in nw THEN 0 ELSE ids[o]],
      name |-> [o \in CommitSlots |-> 0],
      batch_name |-> [o \in CommitSlots |-> b],
      link0 |-> l,
      link |-> {UserInstance(t) : t \in l},
      refetched_link |-> R, v |-> v] :
        nw \in SUBSET (CommitSlots \ {1}),
        ids \in [CommitSlots -> CommitIds],
        l \in SUBSET CommitSlots,
        R \in SUBSET CommitIds,
        b \in Vals, v \in Vals}

\* Inserts return fresh identities, and a link holds one target per identity.
CommitStartOk(c) ==
    /\ \A o \in c.new : \A p \in CommitSlots : p # o => c.new_ids[p] # c.new_ids[o]
    /\ \A t \in c.link0 : \A u \in c.link0 : t # u => c.new_ids[t] # c.new_ids[u]

CommitInit ==
    /\ ent = [o \in Slots |-> Absent]
    /\ exec = IdleExec
    /\ nextId = MaxKnownId + 1
    /\ outcome = "none"
    /\ last = NoLast
    /\ snap = NoSnap
    /\ nops = 0
    /\ aux \in {c \in CommitStarts : CommitStartOk(c)}

\* Ids are applied to new objects.
ApplyIds ==
    /\ aux.pc = "ids"
    /\ aux' = [aux EXCEPT !.pc = "existing",
                          !.id = [o \in CommitSlots |->
                                    apply_id([id |-> aux.id[o]],
                                             aux.new_ids[o]).id]]
    /\ UNCHANGED <<ent, exec, nextId, outcome, last, snap, nops>>

ReachableForAnyRole(c, r) ==
    {UserInstance(o) : o \in {p \in CommitSlots : c.new_ids[p] = r}}
       \cup {BatchInstance(o) : o \in {p \in CommitSlots : c.new_ids[p] = r}}

\* Objects of the call that can stand for a refetched identity: the
\* existing objects, and the new objects as kept in new_objects.
ReachableFor(c, r) ==
    {UserInstance(o) : o \in {p \in CommitSlots \ c.new : c.id[p] = r}}
       \cup {BatchInstance(o) : o \in {p \in c.new : c.new_ids[p] = r}}

ReconcileWithoutReachable(c, r) ==
    LET existing == {t \in c.link : t.role = "user" /\ c.id[t.n] = r}
    IN  IF existing # {} THEN existing ELSE {Placeholder(r)}

\* reconcile_link: the objects that may be bound for a refetched identity,
\* by priority the existing link target, a reachable object, a new object
\* with only `id`.
reconcile_link(c, r) ==
    LET existing == {t \in c.link : t.role = "user" /\ c.id[t.n] = r}
    IN  IF existing # {} THEN existing
        ELSE IF ReachableFor(c, r) # {} THEN ReachableFor(c, r)
        ELSE {Placeholder(r)}

\* Refetch data is applied to the existing objects: their names, and the
\* link of instance 1, each refetched identity bound by reconcile_link.
ApplyRefetchedExisting ==
    /\ aux.pc = "existing"
    /\ \E bound \in SUBSET UNION {reconcile_link(aux, r) :
                                     r \in aux.refetched_link} :
          /\ \A r \in aux.refetched_link :
                Cardinality(bound \cap reconcile_link(aux, r)) = 1
          /\ aux' = [aux EXCEPT
                       !.pc = "batch",
                       !.name = [o \in CommitSlots |->
                                   IF o \in aux.new THEN @[o]
                                   ELSE StoredName(aux, aux.id[o])],
                       !.link = bound]
    /\ UNCHANGED <<ent, exec, nextId, outcome, last, snap, nops>>

ApplyToBatchSkipped(c) == c.batch_name

\* _apply_refetched_data_shape on the batch instances of the new objects.
apply_to_batch(c) ==
    [o \in CommitSlots |->
        IF o \in c.new THEN StoredName(c, c.new_ids[o]) ELSE c.batch_name[o]]

\* Refetch data is applied to new objects: first to the batch instance.
ApplyRefetchedNew ==
    /\ aux.pc = "batch"
    /\ aux' = [aux EXCEPT !.pc = "user", !.batch_name = apply_to_batch(aux)]
    /\ UNCHANGED <<ent, exec, nextId, outcome, last, snap, nops>>

\* ... then the user instance of each new object is updated from its batch
\* instance.
UpdateUserInstances ==
    /\ aux.pc = "user"
    /\ aux' = [aux EXCEPT !.pc = "done",
                          !.name = [o \in CommitSlots |->
                                      IF o \in aux.new THEN aux.batch_name[o]
                                      ELSE @[o]]]
    /\ UNCHANGED <<ent, exec, nextId, outcome, last, snap, nops>>

CommitNext ==
    \/ ApplyIds
    \/ ApplyRefetchedExisting
    \/ ApplyRefetchedNew
    \/ UpdateUserInstances

SpecCommit == CommitInit /\ [][CommitNext]_vars

\* ====================================== component model: link properties
\* One single link `bar.foo` with link properties, as in the example of the
\* notes: the wrapper the Python object holds (target and link properties,
\* with the properties changed in place since the last commit), and the
\* link as the store holds it.

NLinkProps == 2

NTargets == 2

LinkPropNames == 1..NLinkProps

Targets == 1..NTargets

\* A link property without a value.
Unset == 2

LinkPropVals == Vals \cup {Unset}

NoLinkProps == [n \in LinkPropNames |-> Unset]

LinkPropsInit ==
    /\ ent = [o \in Slots |-> Absent]
    /\ exec = IdleExec
    /\ nextId = MaxKnownId + 1
    /\ outcome = "none"
    /\ last = NoLast
    /\ snap = NoSnap
    /\ nops = 0
    /\ aux = [model |-> "linkprops",
              target |-> 0, lp |-> NoLinkProps,
              assigned |-> FALSE, changed |-> {},
              stored_target |-> 0, stored_lp |-> NoLinkProps,
              op |-> [name |-> "none"]]

\* bar.foo = Bar.foo.link(t, **supplied), or bar.foo = t with nothing
\* supplied: the link gets a new wrapper.
AssignLink ==
    /\ aux.model = "linkprops"
    /\ \E t \in Targets, supplied \in [LinkPropNames -> LinkPropVals] :
          aux' = [aux EXCEPT !.target = t, !.lp = supplied,
                             !.assigned = TRUE, !.changed = {},
                             !.op = [name |-> "assign", target |-> t,
                                     supplied |-> supplied]]
    /\ UNCHANGED <<ent, exec, nextId, outcome, last, snap, nops>>

\* bar.foo.__linkprops__.n = v
SetLinkProp ==
    /\ aux.model = "linkprops"
    /\ aux.target # 0
    /\ \E n \in LinkPropNames, v \in Vals :
          aux' = [aux EXCEPT !.lp[n] = v,
                             !.changed = @ \cup {n},
                             !.op = [name |-> "set", n |-> n, v |-> v]]
    /\ UNCHANGED <<ent, exec, nextId, outcome, last, snap, nops>>

SavedLinkPropsMerged(c) ==
    [n \in LinkPropNames |->
        IF c.lp[n] # Unset THEN c.lp[n]
        ELSE IF c.stored_target = c.target THEN c.stored_lp[n] ELSE Unset]

\* The link properties the store holds after the save: those of the
\* wrapper when the link was assigned, otherwise the stored ones with the
\* properties changed in place.
SavedLinkProps(c) ==
    IF c.assigned THEN c.lp
    ELSE [n \in LinkPropNames |->
             IF n \in c.changed THEN c.lp[n] ELSE c.stored_lp[n]]

\* client.sync(bar): the link is saved, refetched and committed.
SyncLink ==
    /\ aux.model = "linkprops"
    /\ aux.target # 0
    /\ aux' = [aux EXCEPT !.stored_target = aux.target,
                          !.stored_lp = SavedLinkProps(aux),
                          !.lp = SavedLinkProps(aux),
                          !.assigned = FALSE, !.changed = {},
                          !.op = [name |-> "sync"]]
    /\ UNCHANGED <<ent, exec, nextId, outcome, last, snap, nops>>

LinkPropsNext ==
    \/ AssignLink
    \/ SetLinkProp
    \/ SyncLink

SpecLinkProps == LinkPropsInit /\ [][LinkPropsNext]_vars

\* ========================================== component model: batch split
\* The changes of one group of the plan (one kind, type and set of
\* pointers), numbered in plan order, are taken into QueryBatches of up to
\* MaxBatchSize changes.

MaxBatchSize == 100

MaxGroup == 250

BatchInit ==
    /\ ent = [o \in Slots |-> Absent]
    /\ exec = IdleExec
    /\ nextId = MaxKnownId + 1
    /\ outcome = "none"
    /\ last = NoLast
    /\ snap = NoSnap
    /\ nops = 0
    /\ \E n \in 0..MaxGroup, k \in {"INSERT", "UPDATE"} :
          aux = [model |-> "batch", n |-> n, key |-> k,
                 next |-> 1, batches |-> <<>>]

BatchChunkOneMore(lo, n) ==
    lo..(IF lo + MaxBatchSize <= n THEN lo + MaxBatchSize ELSE n)

\* The changes of the next batch: up to MaxBatchSize of those not yet taken.
BatchChunk(lo, n) ==
    lo..(IF lo + MaxBatchSize - 1 <= n THEN lo + MaxBatchSize - 1 ELSE n)

\* The next QueryBatch of the group is formed.
TakeBatch ==
    /\ aux.model = "batch"
    /\ aux.next <= aux.n
    /\ LET items == BatchChunk(aux.next, aux.n)
       IN  aux' = [aux EXCEPT
                     !.batches = Append(@, [key |-> aux.key, items |-> items]),
                     !.next = aux.next + Cardinality(items)]
    /\ UNCHANGED <<ent, exec, nextId, outcome, last, snap, nops>>

BatchNext == TakeBatch

SpecBatch == BatchInit /\ [][BatchNext]_vars

\* ============================================ component model: traversal
\* make_plan's walk over the objects of a call, one object at a time: the
\* objects still to look at, the objects already visited, and the
\* ModelChanges created so far, in order.

NNodes == 3

Nodes == 1..NNodes

\* The members of a set of objects in ascending order.
RECURSIVE InOrder(_)
InOrder(S) ==
    IF S = {} THEN <<>>
    ELSE LET m == CHOOSE x \in S : \A y \in S : x <= y
         IN  <<m>> \o InOrder(S \ {m})

TraverseInit ==
    /\ ent = [o \in Slots |-> Absent]
    /\ exec = IdleExec
    /\ nextId = MaxKnownId + 1
    /\ outcome = "none"
    /\ last = NoLast
    /\ snap = NoSnap
    /\ nops = 0
    /\ \E links \in [Nodes -> SUBSET Nodes], roots \in SUBSET Nodes,
          changed \in SUBSET Nodes :
          aux = [model |-> "traverse", links |-> links, roots |-> roots,
                 changed |-> changed, todo |-> InOrder(roots),
                 visited |-> {}, visits |-> [o \in Nodes |-> 0],
                 plan |-> <<>>]

SeenNever(c, o) == FALSE

\* Whether the object was already visited in this walk.
Seen(c, o) == o \in c.visited

\* The next object is one not yet visited: it is checked for changes, a
\* ModelChange is created when it has any, and its link targets are to be
\* looked at next.
Visit ==
    /\ aux.model = "traverse"
    /\ aux.todo # <<>>
    /\ LET o == Head(aux.todo)
       IN  /\ ~Seen(aux, o)
           /\ aux' = [aux EXCEPT
                        !.visited = @ \cup {o},
                        !.visits[o] = IF @ < NNodes THEN @ + 1 ELSE @,
                        !.plan = IF o \in aux.changed
                                 THEN Append(@, o) ELSE @,
                        !.todo = InOrder(aux.links[o]) \o Tail(@)]
    /\ UNCHANGED <<ent, exec, nextId, outcome, last, snap, nops>>

\* The next object was already visited: it is passed over.
SkipVisited ==
    /\ aux.model = "traverse"
    /\ aux.todo # <<>>
    /\ Seen(aux, Head(aux.todo))
    /\ aux' = [aux EXCEPT !.todo = Tail(@)]
    /\ UNCHANGED <<ent, exec, nextId, outcome, last, snap, nops>>

TraverseNext ==
    \/ Visit
    \/ SkipVisited

SpecTraverse == TraverseInit /\ [][TraverseNext]_vars /\ WF_vars(TraverseNext)

\* ================================= component model: order of the inserts
\* The objects of one call with a single link each (0: no target): which
\* are new, the identities known so far, the insert batches of the plan
\* (changes that can be run independently of each other), and the changes
\* issued and returned.  An object that exists is updated with its link in
\* the update batch, after the insert batches.

InsertLayerAll(c, planned) == c.new \ planned

\* The new objects that can be inserted once the objects in `planned` are:
\* those whose link target is none, exists, or is in `planned`.
InsertLayer(c, planned) ==
    {o \in c.new \ planned :
        c.link[o] = 0 \/ c.link[o] \notin c.new \/ c.link[o] \in planned}

RECURSIVE insert_batches(_, _, _)
\* The insert batches of the plan, in order.
insert_batches(c, planned, n) ==
    IF n = 0 \/ InsertLayer(c, planned) = {} THEN <<>>
    ELSE <<InsertLayer(c, planned)>>
            \o insert_batches(c, planned \cup InsertLayer(c, planned), n - 1)

\* The update batch: the objects that exist and have a link to save.
update_batch(c) == {o \in Nodes \ c.new : c.link[o] # 0}

\* All batches of the plan: the insert batches, then the update batch.
PlanOrder(c) ==
    insert_batches(c, {}, NNodes)
       \o (IF update_batch(c) = {} THEN <<>> ELSE <<update_batch(c)>>)

\* The graphs of new and existing objects whose new objects can all be
\* inserted (no cycle of links through new objects only).
InsertStarts ==
    {c \in [model : {"inserts"}, new : SUBSET Nodes,
            link : [Nodes -> Nodes \cup {0}]] :
        UNION {insert_batches(c, {}, NNodes)[i] :
                 i \in DOMAIN insert_batches(c, {}, NNodes)} = c.new}

InsertOrderInit ==
    /\ ent = [o \in Slots |-> Absent]
    /\ exec = IdleExec
    /\ nextId = MaxKnownId + 1
    /\ outcome = "none"
    /\ last = NoLast
    /\ snap = NoSnap
    /\ nops = 0
    /\ \E c \in InsertStarts :
          aux = [model |-> "inserts", new |-> c.new, link |-> c.link,
                 ids |-> [o \in Nodes |-> IF o \in c.new THEN 0 ELSE o],
                 batches |-> PlanOrder(c), cur |-> 1,
                 issued |-> {}, returned |-> {},
                 sent |-> [o \in Nodes |-> 0],
                 next_id |-> NNodes + 1]

\* The batch being executed.
CurrentBatch ==
    IF aux.cur \in DOMAIN aux.batches THEN aux.batches[aux.cur] ELSE {}

\* The query of one change of the current batch is sent, with the identity
\* of its link target as the identity map has it.
IssueChange(o) ==
    /\ aux.model = "inserts"
    /\ o \in CurrentBatch \ aux.issued
    /\ aux' = [aux EXCEPT
                 !.issued = @ \cup {o},
                 !.sent[o] = IF aux.link[o] = 0 THEN 0
                             ELSE aux.ids[aux.link[o]]]
    /\ UNCHANGED <<ent, exec, nextId, outcome, last, snap, nops>>

\* The query of a change returns; for an insert the new identity is
\* recorded.  The next batch starts when the current one has returned.
ReturnChange(o) ==
    /\ aux.model = "inserts"
    /\ o \in aux.issued \ aux.returned
    /\ aux' = [aux EXCEPT
                 !.returned = @ \cup {o},
                 !.ids[o] = IF o \in aux.new THEN aux.next_id ELSE @,
                 !.next_id = IF o \in aux.new THEN @ + 1 ELSE @,
                 !.cur = IF CurrentBatch \subseteq aux.returned \cup {o}
                         THEN @ + 1 ELSE @]
    /\ UNCHANGED <<ent, exec, nextId, outcome, last, snap, nops>>

InsertOrderNext ==
    \/ \E o \in Nodes : IssueChange(o)
    \/ \E o \in Nodes : ReturnChange(o)

SpecInsertOrder == InsertOrderInit /\ [][InsertOrderNext]_vars

\* ------------------------------------------------- object codec: decode
\*
\* One ObjectCodec and the calls of decode on it.  The codec's state is in
\* `aux`: its field names, its cache of the return type's description, the
\* arguments of the last call and what the call returned or raised.

\* The field names the codec can be built with: an object shape with a type
\* name, an object shape without one, and the shape of a link target with a
\* link property.
CodecNames ==
    {<<"id", "__tname__", "name", "friends">>,
     <<"id", "name">>,
     <<"id", "__tname__", "name", "@since">>}

\* The return types decode is called with: no type, three models, a
\* link-property proxy of User, a class that is no model, and a model whose
\* pointers cannot be resolved.
ReturnTypes == {"None", "User", "Post", "UserLink", "Plain", "Half"}

\* flags[i] & _EDGE_POINTER_IS_LINKPROP
IsLinkProp(name) == name = "@since"

\* name[1:] of a link-property field.
LinkPropKey(name) == IF name = "@since" THEN "since" ELSE name

\* __proxy_of__ of a return type.
proxy_of(T) == IF T = "UserLink" THEN "User" ELSE "None"

\* The return type has __gel_reflection__ with pointers and
\* __gel_model_construct__.
IsGelModel(T) == T \notin {"None", "Plain"}

\* The canonical types among a type and its subclasses, by type name: Admin
\* is a subclass of User.
CanonicalDescendants(T) ==
    CASE T = "User" -> {"User", "Admin"}
      [] T \in {"Post", "Half", "Admin"} -> {T}
      [] OTHER -> {}

\* __gel_pointers__() of a model.
GelPointers(T) == IF T = "Post" THEN {"name"} ELSE {"name", "friends"}

\* Resolving the type of a pointer of this model raises.
ResolveRaises(T) == T = "Half"

\* sub.get_resolved_type() of a pointer.
ResolvedType(T, name) == IF name = "friends" THEN T ELSE "str"

\* cached_tname_map is None.
NoTnameMap == [is_none |-> TRUE, classes |-> {}]

\* The names for which adapt_to_return_type appends an entry.
Appended(names, T) ==
    SelectSeq(names, LAMBDA n : \/ IsLinkProp(n)
                                \/ n \in {"__tname__", "__tid__", "id"}
                                \/ n \in GelPointers(T))

IsSpecialName(n) == IsLinkProp(n) \/ n \in {"__tname__", "__tid__", "id"}

\* 0-based position of a name in the codec's names, Len(names) if absent.
IndexOf(names, n) ==
    IF \E i \in DOMAIN names : names[i] = n
    THEN (CHOOSE i \in DOMAIN names : names[i] = n) - 1
    ELSE Len(names)

\* ObjectCodec.new: the cache of a new codec.  cached_tname_index is not
\* assigned; the field of the extension type starts at zero.  A
\* cached_return_type_dlists of None is written <<>>: indexing raises for
\* both.
new(names) ==
    [names |-> names,
     cached_return_type_proxy |-> "None",
     cached_return_type |-> "None",
     cached_return_type_subcodecs |-> [i \in DOMAIN names |-> "None"],
     cached_orig_return_type |-> "None",
     cached_tname_map |-> NoTnameMap,
     cached_return_type_dlists |-> <<>>,
     cached_tname_index |-> 0]

\* What a complete introspection of return type T leaves in the cache.
Introspected(c, T) ==
    LET rt == IF proxy_of(T) # "None" THEN proxy_of(T) ELSE T
        app == Appended(c.names, rt)
    IN  IF T = "None"
        THEN [c EXCEPT !.cached_tname_map = NoTnameMap,
                       !.cached_return_type = "None",
                       !.cached_return_type_subcodecs =
                           [i \in DOMAIN c.names |-> "None"],
                       !.cached_return_type_dlists =
                           [i \in DOMAIN c.names |-> "None"],
                       !.cached_return_type_proxy = "None",
                       !.cached_orig_return_type = "None"]
        ELSE [c EXCEPT !.cached_return_type_proxy =
                           IF proxy_of(T) # "None" THEN T ELSE "None",
                       !.cached_return_type = rt,
                       !.cached_tname_index =
                           IF IndexOf(c.names, "__tname__") < Len(c.names)
                           THEN IndexOf(c.names, "__tname__") ELSE @,
                       !.cached_return_type_subcodecs =
                           [i \in DOMAIN app |->
                              IF IsSpecialName(app[i]) THEN "None"
                              ELSE ResolvedType(rt, app[i])],
                       !.cached_return_type_dlists =
                           [i \in DOMAIN app |->
                              IF IsSpecialName(app[i]) THEN "None"
                              ELSE dlist_factory(app[i])],
                       !.cached_tname_map =
                           [is_none |-> FALSE,
                            classes |-> CanonicalDescendants(rt)],
                       !.cached_orig_return_type = T]

\* The cache when resolving the type of pointer "name" raises: what was
\* assigned before the loop and in the loop before that pointer.
Interrupted(c, T) ==
    LET rt == IF proxy_of(T) # "None" THEN proxy_of(T) ELSE T
    IN  [c EXCEPT !.cached_return_type_proxy =
                      IF proxy_of(T) # "None" THEN T ELSE "None",
                  !.cached_return_type = rt,
                  !.cached_tname_index =
                      IF IndexOf(c.names, "__tname__")
                            < IndexOf(c.names, "name")
                      THEN IndexOf(c.names, "__tname__") ELSE @]

\* adapt_to_return_type: nothing is done for the return type recorded in
\* cached_orig_return_type, a class that is no model is refused before
\* anything is assigned, otherwise the return type is introspected.
adapt_to_return_type(c, T) ==
    CASE T = c.cached_orig_return_type ->
            [c |-> c, error |-> "", redone |-> FALSE]
      [] ~IsGelModel(T) /\ T # "None" ->
            [c |-> c, error |-> "TypeError", redone |-> TRUE]
      [] ResolveRaises(IF proxy_of(T) # "None" THEN proxy_of(T) ELSE T) ->
            [c |-> Interrupted(c, T), error |-> "AttributeError",
             redone |-> TRUE]
      [] OTHER -> [c |-> Introspected(c, T), error |-> "", redone |-> TRUE]

\* A NULL element of the record (elem_len == -1).
NULL == "NULL"

\* The values an element of the record can hold, by field.  A multi pointer
\* is sent as a set, never as NULL.
WireValues(name) ==
    CASE name = "id" -> {"i1"}
      [] name = "__tname__" -> {NULL, "User", "Admin", "Other"}
      [] name = "name" -> {NULL, "n1"}
      [] name = "friends" -> {"f0", "f1"}
      [] OTHER -> {NULL, "s1"}

RECURSIVE Elements(_)
\* The element sequences of a record with these field names.
Elements(names) ==
    IF names = <<>> THEN {<<>>}
    ELSE {<<v>> \o t : v \in WireValues(Head(names)),
                       t \in Elements(Tail(names))}

\* The records decode can be given for a codec: an element count, right or
\* one too many, and the elements.
Buffers(names) ==
    [count : {Len(names), Len(names) + 1}, elems : Elements(names)]

NoOut ==
    [status |-> "none", error |-> "", cls |-> "None", proxy |-> "None",
     fields |-> [n \in {} |-> DecodeField("None", NULL)],
     lprops |-> [n \in {} |-> NULL], redone |-> FALSE]

Raised(err, redone) == [NoOut EXCEPT !.status = "error", !.error = err,
                                     !.redone = redone]

\* _decode_plain: every element, by position, in an Object.
decode_plain(c, buf, redone) ==
    [NoOut EXCEPT !.status = "ok", !.cls = "Object", !.redone = redone,
                  !.fields = [n \in {c.names[i] : i \in DOMAIN c.names} |->
                                DecodeField("None",
                                    buf.elems[IndexOf(c.names, n) + 1])]]

\* is_polymorphic of decode.
is_polymorphic(c) ==
    /\ ~c.cached_tname_map.is_none
    /\ Cardinality(c.cached_tname_map.classes) > 1

\* The element at 0-based position i is read past without being stored:
\* the type name of a non-polymorphic record, or the type name kept aside
\* for the choice of the class.
ReadPast(c, buf, i) ==
    /\ buf.elems[i + 1] # NULL
    /\ i = c.cached_tname_index

\* What the loop of decode raises at position i, "" if nothing.
ElemError(c, buf, i) ==
    LET elem == buf.elems[i + 1]
        name == c.names[i + 1]
        dlists == c.cached_return_type_dlists
    IN  CASE elem # NULL /\ i = c.cached_tname_index /\ ~is_polymorphic(c)
                -> ""
          [] elem # NULL /\ i + 1 \notin DOMAIN c.cached_return_type_subcodecs
                -> "IndexError"
          [] elem # NULL /\ i = c.cached_tname_index -> ""
          [] IsLinkProp(name) ->
                IF c.cached_return_type_proxy = "None" THEN "TypeError"
                ELSE ""
          [] i + 1 \notin DOMAIN dlists ->
                IF dlists = <<>> THEN "TypeError" ELSE "IndexError"
          [] dlists[i + 1] = "tuple" /\ elem = NULL -> "TypeError"
          [] OTHER -> ""

\* The type name decode keeps for the choice of the class.
TnameOf(c, buf) ==
    IF is_polymorphic(c) /\ buf.elems[c.cached_tname_index + 1] # NULL
    THEN buf.elems[c.cached_tname_index + 1]
    ELSE "None"

DeclaredAlways(c, buf) == c.cached_return_type

\* current_ret_type of decode: the class the type name is mapped to, the
\* declared return type when the map has no such name.
current_ret_type(c, buf) ==
    IF is_polymorphic(c) /\ TnameOf(c, buf) \in c.cached_tname_map.classes
    THEN TnameOf(c, buf)
    ELSE c.cached_return_type

\* The loop of decode over a record of the right size for a model return
\* type, and the construction of the result.
decode_model(c, buf, redone) ==
    LET idx == 0 .. (Len(c.names) - 1)
        bad == {i \in idx : ElemError(c, buf, i) # ""}
        placed == {i \in idx : ~ReadPast(c, buf, i)}
        obj == {c.names[i + 1] : i \in {j \in placed :
                                           ~IsLinkProp(c.names[j + 1])}}
        lp == {c.names[i + 1] : i \in {j \in placed :
                                           IsLinkProp(c.names[j + 1])}}
    IN  CASE bad # {} ->
               Raised(ElemError(c, buf,
                         CHOOSE i \in bad : \A j \in bad : i <= j), redone)
          [] is_polymorphic(c) /\ TnameOf(c, buf) = "None" ->
               Raised("RuntimeError", redone)
          [] OTHER ->
               [status |-> "ok", error |-> "",
                cls |-> current_ret_type(c, buf),
                proxy |-> c.cached_return_type_proxy,
                fields |-> [n \in obj |->
                   DecodeField(
                     c.cached_return_type_dlists[IndexOf(c.names, n) + 1],
                     buf.elems[IndexOf(c.names, n) + 1])],
                lprops |-> [k \in {LinkPropKey(n) : n \in lp} |->
                   buf.elems[IndexOf(c.names,
                      CHOOSE n \in lp : LinkPropKey(n) = k) + 1]],
                redone |-> redone]

\* ObjectCodec.decode: the codec after the call and what the call returned
\* or raised.
decode(c0, T, buf) ==
    LET a == adapt_to_return_type(c0, T)
        c == a.c
    IN  [c |-> c,
         out |-> CASE a.error # "" -> Raised(a.error, a.redone)
                   [] buf.count # Len(c.names) ->
                        Raised("RuntimeError", a.redone)
                   [] c.cached_return_type = "None" ->
                        decode_plain(c, buf, a.redone)
                   [] OTHER -> decode_model(c, buf, a.redone)]

CodecInit ==
    /\ ent = [o \in Slots |-> Absent]
    /\ exec = IdleExec
    /\ nextId = MaxKnownId + 1
    /\ outcome = "none"
    /\ last = NoLast
    /\ snap = NoSnap
    /\ nops = 0
    /\ \E names \in CodecNames :
          aux = [model |-> "codec", codec |-> new(names),
                 call |-> [return_type |-> "None",
                           buf |-> [count |-> 0,
                                    elems |-> [i \in DOMAIN names |-> NULL]]],
                 out |-> NoOut]

\* One call of decode on the codec.
Decode(T, buf) ==
    /\ aux.model = "codec"
    /\ LET r == decode(aux.codec, T, buf)
       IN  aux' = [aux EXCEPT !.codec = r.c,
                              !.call = [return_type |-> T, buf |-> buf],
                              !.out = r.out]
    /\ UNCHANGED <<ent, exec, nextId, outcome, last, snap, nops>>

CodecNext ==
    \E T \in ReturnTypes : \E buf \in Buffers(aux.codec.names) :
        Decode(T, buf)

SpecCodec == CodecInit /\ [][CodecNext]_vars

\* ------------------------------------------------- object codec: encode
\*
\* One ObjectCodec with three fields and the calls of encode_args and
\* encode on it with one output buffer.  `aux` holds whether the codec is
\* sparse, the words written to the output buffer, the arguments of the
\* last call and what it raised.

MaxEncoded == 2

\* The fields of the codec and their cardinalities.
ArgNames == <<"a", "b", "c">>

ArgCards == <<"ONE", "AT_MOST_ONE", "AT_LEAST_ONE">>

\* The keys an argument dict can have, one of them no field of the codec.
ArgKeys == {"a", "b", "c", "x"}

\* The values of an argument: None, a value the field's codec encodes, a
\* value it refuses with TypeError or ValueError.
ArgValues == {"None", "v1", "bad"}

\* The dicts passed to encode_args.
ArgDicts == UNION {[K -> ArgValues] : K \in SUBSET ArgKeys}

\* The dicts passed to encode, as their items in iteration order.
ItemLists ==
    {s \in UNION {[1 .. n -> [name : ArgKeys, value : ArgValues]] :
                     n \in 0 .. 2} :
        \A i, j \in DOMAIN s : s[i].name = s[j].name => i = j}

\* descriptor.get_pos(name), 0-based; Len(ArgNames) stands for LookupError.
get_pos(name) ==
    IF \E i \in DOMAIN ArgNames : ArgNames[i] = name
    THEN (CHOOSE i \in DOMAIN ArgNames : ArgNames[i] = name) - 1
    ELSE Len(ArgNames)

\* sub_codec.encode of an accepted value: its length and its bytes.
EncodeValue(v) == <<4, 1>>

RECURSIVE Concat(_)
\* The words of the parts, in order.
Concat(parts) ==
    IF parts = <<>> THEN <<>> ELSE Head(parts) \o Concat(Tail(parts))

\* The record written to the output buffer: the length in bytes, the number
\* of elements, the elements.
Record(objlen, elem_data) == <<4 + 4 * Len(elem_data), objlen>> \o elem_data

EncodeArgsStreaming(sparse, buf, obj) ==
    LET idx == DOMAIN ArgNames
        err(i) == CASE ArgNames[i] \notin DOMAIN obj -> "QueryArgumentError"
                    [] obj[ArgNames[i]] = "None"
                         /\ ArgCards[i] \in {"ONE", "AT_LEAST_ONE"}
                        -> "InvalidArgumentError"
                    [] obj[ArgNames[i]] = "bad" -> "InvalidArgumentError"
                    [] OTHER -> ""
        bad == {i \in idx : err(i) # ""}
        upto == IF bad = {} THEN Len(ArgNames)
                ELSE (CHOOSE i \in bad : \A j \in bad : i <= j) - 1
        elem(i) == <<0>> \o (IF obj[ArgNames[i]] = "None" THEN <<-1>>
                             ELSE EncodeValue(obj[ArgNames[i]]))
        elem_data == Concat([i \in 1 .. upto |-> elem(i)])
    IN  CASE sparse -> [buf |-> buf, error |-> "NotImplementedError"]
          [] Cardinality(DOMAIN obj) # Len(ArgNames) ->
               [buf |-> buf, error |-> "QueryArgumentError"]
          [] bad # {} ->
               [buf |-> buf \o elem_data,
                error |-> err(CHOOSE i \in bad : \A j \in bad : i <= j)]
          [] OTHER ->
               [buf |-> buf \o Record(Len(ArgNames), elem_data),
                error |-> ""]

\* ObjectCodec.encode_args: the output buffer after the call and the error
\* raised, "" if none.
encode_args(sparse, buf, obj) ==
    LET idx == DOMAIN ArgNames
        err(i) == CASE ArgNames[i] \notin DOMAIN obj -> "QueryArgumentError"
                    [] obj[ArgNames[i]] = "None"
                         /\ ArgCards[i] \in {"ONE", "AT_LEAST_ONE"}
                        -> "InvalidArgumentError"
                    [] obj[ArgNames[i]] = "bad" -> "InvalidArgumentError"
                    [] OTHER -> ""
        bad == {i \in idx : err(i) # ""}
        elem(i) == <<0>> \o (IF obj[ArgNames[i]] = "None" THEN <<-1>>
                             ELSE EncodeValue(obj[ArgNames[i]]))
        elem_data == Concat([i \in idx |-> elem(i)])
    IN  CASE sparse -> [buf |-> buf, error |-> "NotImplementedError"]
          [] Cardinality(DOMAIN obj) # Len(ArgNames) ->
               [buf |-> buf, error |-> "QueryArgumentError"]
          [] bad # {} ->
               [buf |-> buf,
                error |-> err(CHOOSE i \in bad : \A j \in bad : i <= j)]
          [] OTHER ->
               [buf |-> buf \o Record(Len(ArgNames), elem_data),
                error |-> ""]

\* ObjectCodec.encode of a sparse object: the output buffer after the call
\* and the error raised, "" if none.
encode(sparse, buf, items) ==
    LET idx == DOMAIN items
        err(i) == CASE get_pos(items[i].name) = Len(ArgNames)
                        -> "QueryArgumentError"
                    [] items[i].value = "bad" -> "InvalidArgumentError"
                    [] OTHER -> ""
        bad == {i \in idx : err(i) # ""}
        elem(i) == <<get_pos(items[i].name)>>
                      \o (IF items[i].value = "None" THEN <<-1>>
                          ELSE EncodeValue(items[i].value))
        elem_data == Concat([i \in idx |-> elem(i)])
    IN  CASE ~sparse -> [buf |-> buf, error |-> "NotImplementedError"]
          [] bad # {} ->
               [buf |-> buf,
                error |-> err(CHOOSE i \in bad : \A j \in bad : i <= j)]
          [] OTHER ->
               [buf |-> buf \o Record(Len(items), elem_data), error |-> ""]

NoArgs == [k \in {} |-> "None"]

EncodeInit ==
    /\ ent = [o \in Slots |-> Absent]
    /\ exec = IdleExec
    /\ nextId = MaxKnownId + 1
    /\ outcome = "none"
    /\ last = NoLast
    /\ snap = NoSnap
    /\ nops = 0
    /\ \E sparse \in BOOLEAN :
          aux = [model |-> "encode", is_sparse |-> sparse, buf |-> <<>>,
                 encoded |-> 0,
                 call |-> [op |-> "none", args |-> NoArgs, items |-> <<>>],
                 error |-> ""]

\* One call of encode_args with the output buffer.
EncodeArgs(obj) ==
    /\ aux.model = "encode"
    /\ aux.encoded < MaxEncoded
    /\ LET r == encode_args(aux.is_sparse, aux.buf, obj)
       IN  aux' = [aux EXCEPT
                     !.buf = r.buf,
                     !.encoded = IF r.error = "" THEN @ + 1 ELSE @,
                     !.call = [op |-> "encode_args", args |-> obj,
                               items |-> <<>>],
                     !.error = r.error]
    /\ UNCHANGED <<ent, exec, nextId, outcome, last, snap, nops>>

\* One call of encode with the output buffer.
Encode(items) ==
    /\ aux.model = "encode"
    /\ aux.encoded < MaxEncoded
    /\ LET r == encode(aux.is_sparse, aux.buf, items)
       IN  aux' = [aux EXCEPT
                     !.buf = r.buf,
                     !.encoded = IF r.error = "" THEN @ + 1 ELSE @,
                     !.call = [op |-> "encode", args |-> NoArgs,
                               items |-> items],
                     !.error = r.error]
    /\ UNCHANGED <<ent, exec, nextId, outcome, last, snap, nops>>

EncodeNext ==
    \/ \E obj \in ArgDicts : EncodeArgs(obj)
    \/ \E items \in ItemLists : Encode(items)

SpecEncode == EncodeInit /\ [][EncodeNext]_vars

\* =================================================================== claims

\* Batches the plan of the call in flight needs.
PlanBatches == Batches(exec.plan, "INSERT") \cup Batches(exec.plan, "UPDATE")

InCall == exec.phase \in {"plan", "insert", "update", "refetch", "commit"}

\* C1: when a save or sync call failed (a batch or the refetch query
\* failed), every instance is exactly as it was when the call started (no
\* identity assigned, changed fields kept, collections and their deltas
\* kept) and commit never began.
C1_FailClosed ==
    outcome = "failed" => (ent = snap /\ ~exec.commit_started)

\* A call that failed after a batch had succeeded, with a new object and a
\* pending collection delta in the graph.
C1_Witness ==
    /\ outcome = "failed"
    /\ exec.issued >= 1
    /\ \E o \in Slots : snap[o].ctor = "new" /\ snap[o].id = 0
                        /\ snap[o].added # {}

\* C2: while a call is in flight the instances change only in the commit
\* step, which starts only once every batch of the plan was executed and,
\* for sync, the refetch result was recorded.
C2_NoMutationBeforeCommit ==
    [][(InCall /\ ent' # ent) =>
          /\ exec.phase = "commit"
          /\ exec.issued = Cardinality(PlanBatches)
          /\ (exec.sync => exec.refetches = 1)]_vars

\* A sync call about to commit: identities and refetch data are recorded in
\* the executor and the instances are still untouched.
C2_Witness ==
    /\ exec.phase = "commit" /\ exec.sync /\ exec.refetches = 1
    /\ ent = snap
    /\ \E o \in Slots : exec.new_ids[o] # 0 /\ ent[o].id = 0

\* C3: after a committed call the plan of the same roots is empty, and a
\* second call on the same roots with no caller operation in between has an
\* empty plan and issues no batch.
C3_Idempotence ==
    /\ outcome = "committed" => make_plan(ent, exec.roots) = {}
    /\ (exec.resave /\ exec.phase \in {"insert", "update", "refetch", "commit"})
          => (exec.plan = {} /\ exec.issued = 0)

\* A second call about to commit over an object the first call inserted.
C3_Witness ==
    /\ exec.resave /\ exec.phase = "commit" /\ exec.issued = 0
    /\ \E o \in exec.roots : ent[o].ctor = "new" /\ ent[o].id # 0

\* C4: a membership read (__len__, __iter__, __contains__, __bool__) of a
\* collection in write mode raises "cannot access unfetched data", whatever
\* was appended, removed, cleared or saved before.
C4_WriteModeRejectsReads ==
    (last.op = "read" /\ last.pre.mode = DLIST_WRITE) => last.res = {StaleError}

\* A read that was rejected right after a committed save of the object.
C4_Witness ==
    /\ last.op = "read" /\ last.pre.mode = DLIST_WRITE
    /\ last.res = {StaleError}
    /\ outcome = "committed" /\ ~exec.sync /\ last.o \in exec.roots

\* C5: the collection of an instance constructed without id is read-write;
\* the untouched collection of an instance constructed from a known id is
\* write-only; a collection that was assigned is read-write.
C5_ModeTable ==
    \A o \in Slots :
        /\ ent[o].ctor = "new" => ent[o].mode = DLIST_READ_WRITE
        /\ (ent[o].ctor = "known_id" /\ "friends" \notin ent[o].ptrs_set)
              => ent[o].mode = DLIST_WRITE
        /\ (ent[o].ctor \in {"new", "known_id"} /\ "friends" \in ent[o].ptrs_set)
              => ent[o].mode = DLIST_READ_WRITE

\* One instance from a known id with its collection untouched next to one
\* from a known id that was assigned the empty list.
C5_Witness ==
    \E a, b \in Slots :
        /\ ent[a].ctor = "known_id" /\ "friends" \notin ent[a].ptrs_set
        /\ ent[a].mode = DLIST_WRITE
        /\ ent[b].ctor = "known_id" /\ "friends" \in ent[b].ptrs_set
        /\ ent[b].base = {} /\ ent[b].mode = DLIST_READ_WRITE

\* What a multi pointer of an instance holds.
PointerMode(e, ptr) ==
    IF ptr = "friends" THEN e.mode ELSE e.tags

\* C6 as stated: every multi pointer of the fetched shape is a read-write
\* collection, the multi link left out of the shape is write-only.
C6_Original ==
    last.op = "fetch" =>
        /\ \A ptr \in MultiPointers \cap last.items :
              PointerMode(ent[last.o], ptr) = DLIST_READ_WRITE
        /\ "friends" \notin last.items => ent[last.o].mode = DLIST_WRITE

\* C6 amended: a fetched multi link is a read-write collection whatever the
\* limit was, a fetched computed multi property is a plain tuple, and a
\* multi link left out of the shape (of the fetched object and of the
\* objects fetched as its friends) is write-only.
C6_FetchModes ==
    last.op = "fetch" =>
        /\ "friends" \in last.items => ent[last.o].mode = DLIST_READ_WRITE
        /\ "tags" \in last.items => ent[last.o].tags = "tuple"
        /\ "friends" \notin last.items => ent[last.o].mode = DLIST_WRITE
        /\ \A x \in ent[last.o].base : x # last.o => ent[x].mode = DLIST_WRITE

\* A fetch with limit 0 of the link and of the computed property.
C6_Witness ==
    /\ last.op = "fetch" /\ last.x = 0
    /\ last.items = {"friends", "tags"}
    /\ ent[last.o].mode = DLIST_READ_WRITE /\ ent[last.o].base = {}
    /\ ent[last.o].tags = "tuple"

\* C7: after `pointer = items` the collection is read-write, its base is
\* items and it has no added and no removed items.
C7_ReplaceResult ==
    last.op = "replace" =>
        /\ ent[last.o].mode = DLIST_READ_WRITE
        /\ ent[last.o].base = last.items
        /\ ent[last.o].added = {}
        /\ ent[last.o].removed = {}

\* A write-mode collection with a pending addition was replaced.
C7_Witness ==
    /\ last.op = "replace"
    /\ last.pre.mode = DLIST_WRITE /\ last.pre.added # {}
    /\ ent[last.o].mode = DLIST_READ_WRITE

\* C8: no step takes the collection of an instance from read-write mode to
\* write mode.
C8_NoBackToWrite ==
    [][\A o \in Slots :
          (ent[o].ctor # "absent" /\ ent[o].mode = DLIST_READ_WRITE)
             => ent'[o].mode = DLIST_READ_WRITE]_vars

\* A collection that became read-write by assignment, committed by a sync.
C8_Witness ==
    /\ outcome = "committed" /\ exec.sync
    /\ \E o \in exec.roots :
          ent[o].ctor = "known_id" /\ ent[o].mode = DLIST_READ_WRITE

\* C9: append and remove work in both modes, put the item in the added or
\* the removed items, keep the mode and do not mark the link as assigned;
\* the change of a plan carries the added items as `+=`, the removed items
\* as `-=`, and a `:=` only for a link that was assigned.
C9_DeltasNotReplacement ==
    /\ last.op = "append" =>
          /\ last.res = {"ok"}
          /\ last.x \in ent[last.o].added
          /\ ent[last.o].mode = last.pre.mode
          /\ ent[last.o].changed = last.pre.changed
    /\ last.op = "remove" =>
          /\ last.res = {"ok"}
          /\ last.x \in ent[last.o].removed
          /\ ent[last.o].mode = last.pre.mode
          /\ ent[last.o].changed = last.pre.changed
    /\ \A ch \in exec.plan :
          /\ ch.add = snap[ch.obj].added
          /\ ch.remove = snap[ch.obj].removed
          /\ ch.assign <=> "friends" \in snap[ch.obj].changed

\* The update round of a call whose plan adds to a write-mode collection.
C9_Witness ==
    /\ exec.phase = "update"
    /\ \E ch \in exec.plan :
          /\ ch.add # {} /\ ~ch.assign
          /\ snap[ch.obj].mode = DLIST_WRITE

\* What clear() leaves for the plan: no link change at all.
NoLinkChange(E, o) ==
    LET ch == ModelChange(E, o)
    IN ~ch.assign /\ ch.add = {} /\ ch.remove = {}

GraphOf(E, roots) ==
    CHOOSE S \in SUBSET Slots :
        LET closed(T) == roots \subseteq T
                         /\ \A o \in T : Known(E[o]) \subseteq T
        IN  /\ closed(S)
            /\ \A T \in SUBSET Slots : closed(T) => S \subseteq T

\* The step that commits the call in flight.
CommitStep == exec.phase = "commit" /\ outcome' = "committed"

\* The batch a step executed, if it executed one.
IssuedKeys == {key \in BatchKeys : key \notin exec.done /\ key \in exec'.done}

\* C11: an UPDATE batch is issued only in the update round, when every
\* insert of the plan has been executed and its identity recorded, so every
\* target of its link value or additions that the call inserts has its
\* identity recorded; the insert round
\* starts only from the plan and the update round only from the insert
\* round, so a call has at most one of each, in this order.
C11_InsertBeforeUpdate ==
    [][/\ \A key \in IssuedKeys :
             key.kind = "UPDATE" =>
                /\ exec.phase = "update"
                /\ \A ch \in exec.plan :
                      ch.kind = "INSERT" => exec.new_ids[ch.obj] # 0
                /\ \A ch \in BatchChanges(exec.plan, key) :
                      \A x \in ch.value \cup ch.add :
                         (\E c \in exec.plan : c.kind = "INSERT" /\ c.obj = x)
                            => exec.new_ids[x] # 0
       /\ \A key \in IssuedKeys : key.kind = "INSERT" => exec.phase = "insert"
       /\ (exec'.phase = "insert" /\ exec.phase # "insert")
             => exec.phase = "plan"
       /\ (exec'.phase = "update" /\ exec.phase # "update")
             => exec.phase = "insert"]_vars

\* An update batch was executed that adds an object the same call inserted.
C11_Witness ==
    /\ exec.phase = "update"
    /\ \E ch \in exec.plan :
          /\ ch.kind = "UPDATE" /\ BatchKey(ch) \in exec.done
          /\ \E x \in ch.add : snap[x].id = 0 /\ exec.new_ids[x] # 0

\* C12: the phases of a call follow plan, insert round, update round,
\* refetch (sync only), commit; the batches are all executed before the
\* refetch or the commit starts, the refetch result is recorded before the
\* commit of a sync starts, a save never runs a refetch, and a call is
\* committed only by its commit phase, which ends it.
C12_PhaseOrder ==
    [][/\ exec'.phase # exec.phase =>
             \/ exec.phase = "idle" /\ exec'.phase = "plan"
             \/ exec.phase = "plan" /\ exec'.phase = "insert"
             \/ exec.phase = "insert" /\ exec'.phase = "update"
             \/ /\ exec.phase = "update"
                /\ exec'.phase = IF exec.sync THEN "refetch" ELSE "commit"
                /\ exec.issued = Cardinality(PlanBatches)
             \/ /\ exec.phase = "refetch" /\ exec'.phase = "commit"
                /\ exec'.refetches = 1
             \/ /\ exec.phase = "commit" /\ exec'.phase = "idle"
                /\ outcome' = "committed"
             \/ /\ InCall /\ exec'.phase = "idle"
                /\ outcome' = "failed" /\ ent' = ent
       /\ (outcome' = "committed" /\ outcome # "committed")
             => exec.phase = "commit"
       /\ ~exec'.sync => (exec'.refetches = 0 /\ exec'.phase # "refetch")]_vars

\* A sync about to commit after an insert batch, an update batch and the
\* refetch.
C12_Witness ==
    /\ exec.phase = "commit" /\ exec.sync
    /\ exec.refetches = 1
    /\ Batches(exec.plan, "INSERT") # {} /\ Batches(exec.plan, "UPDATE") # {}
    /\ exec.issued = Cardinality(PlanBatches)

\* C13: the commit of a save or sync gives every new object of the call the
\* identity its insert returned, different new objects different
\* identities; and no step changes or unsets an identity that is set.
C13_IdentityAssignment ==
    [][/\ CommitStep =>
             \A o \in GraphOf(ent, exec.roots) :
                ent[o].id = 0 =>
                   /\ ent'[o].id # 0
                   /\ ent'[o].id = exec.new_ids[o]
                   /\ \A y \in GraphOf(ent, exec.roots) :
                         (y # o /\ ent[y].id = 0) => ent'[y].id # ent'[o].id
       /\ \A o \in Slots : ent[o].id # 0 => ent'[o].id = ent[o].id]_vars

\* A committed call whose root links to a new object that was not passed to
\* the call and has its identity now.
C13_Witness ==
    /\ outcome = "committed"
    /\ \E r \in exec.roots :
          \E x \in Known(ent[r]) :
             /\ x \notin exec.roots
             /\ ent[x].ctor = "new" /\ ent[x].id # 0
             /\ ent[r].ctor = "known_id"

\* C14: the commit of a save leaves the name, the mode, the computed
\* property, the set pointers and the members of every read-write
\* collection as they were, sets only the identity of new objects, and
\* touches no object outside the call; the commit of a sync changes a name
\* only to the value the refetch returned.
C14_SaveAppliesOnlyIds ==
    [][/\ (CommitStep /\ ~exec.sync) =>
             \A o \in Slots :
                /\ ent'[o].name = ent[o].name
                /\ ent'[o].mode = ent[o].mode
                /\ ent'[o].tags = ent[o].tags
                /\ ent'[o].ptrs_set = ent[o].ptrs_set
                /\ ent'[o].ctor = ent[o].ctor
                /\ ent[o].mode = DLIST_READ_WRITE
                      => Known(ent'[o]) = Known(ent[o])
                /\ ent[o].id # 0 => ent'[o].id = ent[o].id
                /\ o \notin GraphOf(ent, exec.roots) => ent'[o] = ent[o]
       /\ (CommitStep /\ exec.sync) =>
             \A o \in Slots :
                ent'[o].name # ent[o].name
                   => (exec.refetched[o].got
                       /\ ent'[o].name = exec.refetched[o].name)]_vars

\* A committed save of a new object whose name the caller had set to 1.
C14_Witness ==
    /\ outcome = "committed" /\ ~exec.sync
    /\ \E o \in exec.roots :
          /\ ent[o].ctor = "new" /\ ent[o].id # 0
          /\ ent[o].name = 1 /\ ent[o].changed = {}

\* C15: the commit leaves every object of the call with no changed field
\* and no added and no removed items; a read-write collection holds after a
\* save the members it held before the commit, and after a sync the members
\* the refetch returned when the link was refetched and the members it held
\* when it was not.
C15_Seal ==
    [][CommitStep =>
          \A o \in GraphOf(ent, exec.roots) :
             /\ ent'[o].changed = {}
             /\ ent'[o].added = {}
             /\ ent'[o].removed = {}
             /\ (~exec.sync /\ ent[o].mode = DLIST_READ_WRITE)
                   => /\ Known(ent'[o]) = Known(ent[o])
                      /\ ent'[o].base = Known(ent[o])
             /\ (exec.sync /\ "friends" \in exec.refetched[o].shape)
                   => ent'[o].base = exec.refetched[o].friends
             /\ (exec.sync /\ "friends" \notin exec.refetched[o].shape
                           /\ ent[o].mode = DLIST_READ_WRITE)
                   => ent'[o].base = Known(ent[o])]_vars

\* A committed save of a new object whose members were all appended: they
\* are its base now.
C15_Witness ==
    /\ outcome = "committed" /\ ~exec.sync
    /\ \E o \in exec.roots :
          /\ ent[o].ctor = "new" /\ "friends" \notin ent[o].ptrs_set
          /\ ent[o].base # {}
          /\ ent[o].added = {} /\ ent[o].changed = {}

\* The targets the change of an object adds to or removes from its link.
PlanDelta(o) ==
    UNION {ch.add \cup ch.remove : ch \in {c \in exec.plan : c.obj = o}}

\* C16: the filter a sync sends for a refetched multi link is the union of
\* the members the collection held before the pending deltas and the targets
\* of the delta just saved; for known members {1, 2, 3}, append(4) and
\* remove(2) it is {1, 2, 3, 4}.
C16_DeltaFilter ==
    /\ RefetchFilter(remove(append(ReplacedCollection({1, 2, 3}), 4), 2))
          = {1, 2, 3, 4}
    /\ (exec.phase = "commit" /\ exec.sync) =>
          \A o \in GraphOf(snap, exec.roots) :
             /\ exec.refetched[o].got
             /\ "friends" \in exec.refetched[o].shape
                   => exec.refetched[o].filter = snap[o].base \cup PlanDelta(o)

\* A sync that refetched a link whose only fetched member the caller had
\* removed: the member is still in the filter.
C16_Witness ==
    /\ exec.phase = "commit" /\ exec.sync
    /\ \E o \in exec.roots :
          /\ snap[o].ctor = "fetched"
          /\ snap[o].base # {} /\ snap[o].removed = snap[o].base
          /\ "friends" \in exec.refetched[o].shape
          /\ exec.refetched[o].filter = snap[o].base

\* Pointers with a pending change.
DirtyPointers(e) ==
    e.changed \cup (IF e.added \cup e.removed # {} THEN {"friends"} ELSE {})

\* C17 as stated: an existing object is refetched with the pointers set or
\* fetched before together with the pointers dirty in the call, a new object
\* with all fields.
C17_Original ==
    (exec.phase = "commit" /\ exec.sync) =>
        \A o \in GraphOf(snap, exec.roots) :
            exec.refetched[o].shape =
                IF snap[o].id = 0 THEN PointerNames
                ELSE snap[o].ptrs_set \cup DirtyPointers(snap[o])

\* C17 amended: an existing object is refetched with exactly the pointers
\* set or fetched before, which hold every changed field; a link that was
\* neither assigned nor fetched is not refetched even when items were
\* appended to or removed from it; a new object is refetched with all
\* fields.
C17_RefetchShape ==
    (exec.phase = "commit" /\ exec.sync) =>
        \A o \in GraphOf(snap, exec.roots) :
            /\ exec.refetched[o].got
            /\ snap[o].id = 0 => exec.refetched[o].shape = PointerNames
            /\ snap[o].id # 0 =>
                  /\ exec.refetched[o].shape = snap[o].ptrs_set
                  /\ snap[o].changed \subseteq exec.refetched[o].shape
                  /\ "friends" \notin snap[o].ptrs_set
                        => "friends" \notin exec.refetched[o].shape

\* A sync of an object from a known id, with an item appended to its
\* write-mode link, next to a new object.
C17_Witness ==
    /\ exec.phase = "commit" /\ exec.sync
    /\ \E o \in exec.visited :
          /\ snap[o].id # 0 /\ snap[o].mode = DLIST_WRITE
          /\ snap[o].added # {}
          /\ exec.refetched[o].got
          /\ "friends" \notin exec.refetched[o].shape
    /\ \E x \in exec.visited :
          snap[x].id = 0 /\ exec.refetched[x].shape = PointerNames

\* C18: the objects a call visits are the objects passed to it and all
\* objects reachable from them through the link; each of them that is new
\* or changed has its change in the plan; a sync refetches each of them,
\* changed or not.
C18_Reachability ==
    /\ exec.phase \in {"insert", "update", "refetch", "commit"} =>
          /\ exec.visited = GraphOf(snap, exec.roots)
          /\ {ch.obj : ch \in exec.plan}
                = {o \in GraphOf(snap, exec.roots) :
                      snap[o].id = 0 \/ DirtyPointers(snap[o]) # {}}
    /\ (exec.phase = "commit" /\ exec.sync) =>
          \A o \in Slots :
             exec.refetched[o].got <=> o \in GraphOf(snap, exec.roots)

\* A sync that refetched a fetched friend of its root: the friend was not
\* passed to the call and has no change.
C18_Witness ==
    /\ exec.phase = "commit" /\ exec.sync
    /\ \E o \in exec.visited :
          /\ o \notin exec.roots
          /\ snap[o].id # 0 /\ DirtyPointers(snap[o]) = {}
          /\ exec.refetched[o].got

\* Targets a sync asks about for the link of an instance.
AskedTargets(e) == e.base \cup e.added \cup e.removed

\* C19: when two instances of one stored object are in the graph of a sync,
\* the commit seals each of them, gives each the refetched value of the
\* pointers set or fetched on it, so that they agree on the name when both
\* hold it and on the membership of every target both asked about, and
\* keeps them two instances, each with its own set of pointers.
C19_IdentityStability ==
    [][(CommitStep /\ exec.sync) =>
          \A a \in GraphOf(ent, exec.roots), b \in GraphOf(ent, exec.roots) :
             (a # b /\ ent[a].id # 0 /\ ent[a].id = ent[b].id) =>
                /\ ent'[a].changed = {}
                /\ ent'[a].added = {} /\ ent'[a].removed = {}
                /\ ent'[a].id = ent[a].id
                /\ ent'[a].ptrs_set = ent[a].ptrs_set
                /\ "name" \in ent[a].ptrs_set
                      => ent'[a].name = exec.refetched[a].name
                /\ "name" \in ent[a].ptrs_set \cap ent[b].ptrs_set
                      => ent'[a].name = ent'[b].name
                /\ "friends" \in ent[a].ptrs_set \cap ent[b].ptrs_set
                      => \A x \in AskedTargets(ent[a]) \cap AskedTargets(ent[b]) :
                            x \in ent'[a].base <=> x \in ent'[b].base]_vars

\* A committed sync of two fetched instances of one object: the caller set
\* the name of one of them only, and both hold the name 1 now.
C19_Witness ==
    /\ outcome = "committed" /\ exec.sync
    /\ \E a \in exec.roots, b \in exec.roots :
          /\ a # b
          /\ ent[a].ctor = "fetched" /\ ent[b].ctor = "fetched"
          /\ ent[a].id = ent[b].id
          /\ ent[a].name = 1 /\ ent[b].name = 1
          /\ ent[a].changed = {} /\ ent[b].changed = {}

\* C20: a call whose graph holds two instances of one stored object with
\* conflicting pending changes ends in its plan step with
\* IdentityConflictError; no batch was executed and no instance changed.
C20_IdentityConflict ==
    [][/\ (/\ exec.phase = "plan"
           /\ \E a \in GraphOf(ent, exec.roots), b \in GraphOf(ent, exec.roots) :
                 PendingConflict(ent, a, b))
          => /\ outcome' = "failed"
             /\ exec'.error = "IdentityConflictError"
             /\ exec'.issued = 0
             /\ ent' = ent /\ nextId' = nextId
       /\ exec'.error = "IdentityConflictError"
          => /\ outcome' = "failed"
             /\ ent' = snap'
             /\ exec'.issued = 0 /\ ~exec'.commit_started
             /\ \E a \in Slots, b \in Slots : PendingConflict(snap', a, b)]_vars

\* A call that raised IdentityConflictError: two instances of one object
\* had been given different link targets.
C20_Witness ==
    /\ outcome = "failed" /\ exec.error = "IdentityConflictError"
    /\ \E a \in Slots, b \in Slots :
          /\ PendingConflict(snap, a, b)
          /\ "friends" \in snap[a].changed \cap snap[b].changed

\* C25: within a call a step executes at most one batch, one that was still
\* pending, and marks it done, so that no batch is executed twice and the
\* batches executed never outnumber those of the plan; the refetch runs at
\* most once; a query that fails ends the call at once, nothing is executed
\* again.
C25_NoInternalRetry ==
    [][/\ exec'.issued # exec.issued =>
             \/ exec'.issued = 0
             \/ /\ exec'.issued = exec.issued + 1
                /\ \E key \in PendingBatches :
                      /\ key \notin exec.done
                      /\ exec'.done = exec.done \cup {key}
                /\ exec'.issued <= Cardinality(PlanBatches)
       /\ exec'.refetches # exec.refetches =>
             \/ exec'.refetches = 0
             \/ exec.refetches = 0 /\ exec'.refetches = 1
       /\ (outcome' = "failed" /\ InCall) =>
             /\ exec'.phase = "idle"
             /\ exec'.issued = exec.issued
             /\ exec'.refetches = exec.refetches
             /\ nextId' = nextId]_vars

\* A call that failed in its update round after its insert batch had been
\* executed.
C25_Witness ==
    /\ outcome = "failed" /\ exec.error = "none"
    /\ exec.issued = 1
    /\ nextId > MaxKnownId + 1
    /\ \E o \in Slots : HasChanges(snap[o]) /\ snap[o].id # 0

\* C26: a call cancelled in a round ends there: the batches executed so far
\* stay executed, the call does not commit and every instance is as it was
\* when the call started.
C26_Cancellation ==
    [][/\ (exec'.error = "CancelledError" /\ exec.error # "CancelledError")
          => /\ exec.phase \in {"insert", "update", "refetch"}
             /\ exec'.phase = "idle"
             /\ outcome' = "failed"
             /\ ent' = ent
             /\ exec'.issued = exec.issued /\ nextId' = nextId
       /\ exec'.error = "CancelledError"
          => /\ ent' = snap'
             /\ ~exec'.commit_started
             /\ outcome' # "committed"]_vars

\* A call cancelled after an insert batch had been executed.
C26_Witness ==
    /\ exec.error = "CancelledError" /\ outcome = "failed"
    /\ exec.issued >= 1
    /\ nextId > MaxKnownId + 1
    /\ \E o \in Slots : snap[o].id = 0 /\ snap[o].ctor = "new"
    /\ ent = snap

\* The new objects of the call in flight.
NewInCall == {o \in GraphOf(snap, exec.roots) : snap[o].id = 0}

\* C27: a round ends only when every batch of its kind has been executed,
\* whatever the order; when the batches are done, every new object of the
\* call has one of the identities handed out during the call and each of
\* them a different one, so the order decides only which.
C27_RoundBarrier ==
    [][/\ (exec.phase = "insert" /\ exec'.phase = "update")
             => exec.done = Batches(exec.plan, "INSERT")
       /\ (exec.phase = "update" /\ exec'.phase \in {"refetch", "commit"})
             => exec.done = Batches(exec.plan, "UPDATE")
       /\ exec'.phase \in {"update", "refetch", "commit"}
             => /\ \A o \in Slots :
                      exec'.new_ids[o] # 0 <=> o \in NewInCall
                /\ {exec'.new_ids[o] : o \in NewInCall}
                      = (nextId' - Cardinality(NewInCall)) .. (nextId' - 1)]_vars

\* A call with two insert batches about to commit: the batch of the higher
\* instance was executed first.
C27_Witness ==
    /\ exec.phase = "commit"
    /\ Cardinality(Batches(exec.plan, "INSERT")) = 2
    /\ \E a \in Slots, b \in Slots :
          a < b /\ exec.new_ids[b] # 0 /\ exec.new_ids[b] < exec.new_ids[a]

\* Pointer names the query of a change includes.
IncludedPointers(ch) ==
    ch.props \cup (IF ch.assign \/ ch.add # {} \/ ch.remove # {}
                   THEN {"friends"} ELSE {})

InCommit == aux.model = "commit"

\* The identity an instance bound into the link stands for.
BoundId(t) == IF t.role = "placeholder" THEN t.n ELSE aux.new_ids[t.n]

\* C21: once the refetched link is applied, each refetched identity is
\* bound to exactly one object: the target the link already held for that
\* identity if there is one; otherwise some object of the call with that
\* identity (an existing object, or a new object as inserted); otherwise,
\* and only then, a new object with only the id.  Nothing else is bound.
C21_LinkReconciliation ==
    (InCommit /\ aux.pc \in {"batch", "user", "done"}) =>
        /\ \A t \in aux.link : BoundId(t) \in aux.refetched_link
        /\ \A r \in aux.refetched_link :
              LET held  == {t \in aux.link0 : aux.new_ids[t] = r}
                  reach == {o \in CommitSlots : aux.new_ids[o] = r}
                  got   == {t \in aux.link : BoundId(t) = r}
              IN  /\ Cardinality(got) = 1
                  /\ held # {} => got = {UserInstance(t) : t \in held}
                  /\ (held = {} /\ reach # {}) =>
                        \E o \in reach :
                           got = {IF o \in aux.new THEN BatchInstance(o)
                                  ELSE UserInstance(o)}
                  /\ (held = {} /\ reach = {}) => got = {Placeholder(r)}

C21_Witness ==
    /\ InCommit /\ aux.pc = "done"
    /\ \E t \in aux.link : t.role = "user" /\ t.n \in aux.link0
    /\ \E t \in aux.link : t.role # "placeholder" /\ t.n \notin aux.link0
    /\ \E t \in aux.link : t.role = "placeholder"

\* ------------------------------------------------------------------ C23
\* C23 as stated: after commit every target of the link is a user instance
\* or a new object with only the id.
C23_Original ==
    (InCommit /\ aux.pc = "done") =>
        \A t \in aux.link : t.role \in {"user", "placeholder"}

\* C23: after commit every target of the link is a user instance, a new
\* object with only the id, or the batch instance of an object this call
\* inserted whose user instance the link did not hold; such a batch
\* instance has the refetched data, as the user instance has; an object
\* with only the id is bound only for an identity no object of the call has.
C23_RolesAfterCommit ==
    (InCommit /\ aux.pc = "done") =>
        \A t \in aux.link :
            /\ t.role \in {"user", "batch", "placeholder"}
            /\ t.role = "batch" =>
                  /\ t.n \in aux.new
                  /\ t.n \notin aux.link0
                  /\ aux.batch_name[t.n] = StoredName(aux, aux.new_ids[t.n])
                  /\ aux.batch_name[t.n] = aux.name[t.n]
            /\ t.role = "user" =>
                  (t.n \in aux.link0 \/ t.n \notin aux.new)
            /\ t.role = "placeholder" =>
                  \A o \in CommitSlots : aux.new_ids[o] # t.n

C23_Witness ==
    /\ InCommit /\ aux.pc = "done"
    /\ \E t \in aux.link : t.role = "batch" /\ aux.name[t.n] = 1
    /\ \E t \in aux.link : t.role = "user"

\* ------------------------------------------------------------------ C24
\* C24: when the commit of a sync is done, the user instance of each new
\* object has the identity of its insert and the name the store holds for
\* it; the name of such a user instance changes only in the step that
\* copies from the batch instance, which by then has the refetched name.
C24_RoundTrip ==
    [][InCommit =>
         /\ aux'.pc = "done" =>
               \A o \in aux'.new :
                  /\ aux'.id[o] = aux'.new_ids[o]
                  /\ aux'.name[o] = StoredName(aux', aux'.new_ids[o])
         /\ \A o \in aux.new :
               aux'.name[o] # aux.name[o] =>
                  /\ aux.pc = "user"
                  /\ aux.batch_name[o] = StoredName(aux, aux.new_ids[o])
                  /\ aux'.name[o] = aux.batch_name[o]]_vars

C24_Witness ==
    /\ InCommit /\ aux.pc = "done"
    /\ \E o \in aux.new : aux.name[o] = 1 /\ aux.id[o] # 0

\* ------------------------------------------------------------------ C22
\* C22: assigning a target to the link, the target it already has
\* included, leaves the link with exactly the link properties supplied with
\* the assignment; changing one link property in place changes that one
\* and keeps the others; and the commit of a sync leaves both the wrapper
\* and the store with the link properties the wrapper had.
C22_LinkPropertyOverwrite ==
    [][aux.model = "linkprops" =>
         /\ aux'.op.name = "assign" =>
               /\ aux'.lp = aux'.op.supplied
               /\ aux'.target = aux'.op.target
         /\ aux'.op.name = "set" =>
               /\ aux'.lp[aux'.op.n] = aux'.op.v
               /\ \A m \in LinkPropNames \ {aux'.op.n} : aux'.lp[m] = aux.lp[m]
               /\ aux'.target = aux.target
         /\ aux'.op.name = "sync" =>
               /\ aux'.lp = aux.lp
               /\ aux'.stored_lp = aux.lp
               /\ aux'.stored_target = aux.target]_vars

\* The target the store already links, with all its link properties
\* stored, is assigned again with only the first one supplied.
C22_Witness ==
    /\ aux.model = "linkprops"
    /\ aux.op.name = "assign"
    /\ aux.target = aux.stored_target
    /\ \A n \in LinkPropNames : aux.stored_lp[n] # Unset
    /\ aux.lp[1] # Unset
    /\ \A n \in LinkPropNames \ {1} : aux.lp[n] = Unset

\* ------------------------------------------------------------------ C29
\* C29: no QueryBatch holds more than MaxBatchSize changes; the batches of
\* a group all have the group's shape; every change taken so far is in
\* exactly one batch and no change not yet taken is in any, so that when
\* the group is exhausted every change is in exactly one batch.
C29_BatchSizeBound ==
    aux.model = "batch" =>
        /\ \A i \in DOMAIN aux.batches :
              /\ Cardinality(aux.batches[i].items) <= MaxBatchSize
              /\ aux.batches[i].items # {}
              /\ aux.batches[i].key = aux.key
        /\ \A c \in 1..aux.n :
              Cardinality({i \in DOMAIN aux.batches :
                             c \in aux.batches[i].items})
                 = IF c < aux.next THEN 1 ELSE 0
        /\ aux.next <= aux.n + 1

\* A group of more than twice the maximum was split into three batches.
C29_Witness ==
    /\ aux.model = "batch"
    /\ aux.n > 2 * MaxBatchSize
    /\ aux.next = aux.n + 1
    /\ Len(aux.batches) = 3

\* ------------------------------------------------------------------ C30
RECURSIVE LinkedFrom(_, _, _)
\* The objects at most n links away from the objects S.
LinkedFrom(links, S, n) ==
    IF n = 0 THEN S
    ELSE LinkedFrom(links, S \cup UNION {links[o] : o \in S}, n - 1)

TraverseDone == aux.model = "traverse" /\ aux.todo = <<>>

\* C30: during the walk no object is visited twice, only objects reachable
\* from the roots are visited, and the plan holds at most one ModelChange
\* per visited object and none for any other; the walk ends on every
\* graph, cycles and shared targets included, and when it has ended every
\* object reachable from the roots was visited exactly once.
C30_Traversal ==
    /\ [](aux.model = "traverse" =>
            /\ \A o \in Nodes :
                 /\ aux.visits[o] <= 1
                 /\ aux.visits[o] = 1 <=> o \in aux.visited
                 /\ Cardinality({i \in DOMAIN aux.plan : aux.plan[i] = o})
                       <= aux.visits[o]
            /\ aux.visited \subseteq LinkedFrom(aux.links, aux.roots, NNodes)
            /\ TraverseDone =>
                  aux.visited = LinkedFrom(aux.links, aux.roots, NNodes))
    /\ <>TraverseDone

\* A walk from one root has ended on a graph where every object links to
\* another (so the graph has a cycle), one object is linked from all the
\* others, and every object has a change.
C30_Witness ==
    /\ TraverseDone
    /\ aux.roots = {1}
    /\ aux.visited = Nodes
    /\ Len(aux.plan) = NNodes
    /\ \A o \in Nodes : aux.links[o] # {} /\ o \notin aux.links[o]
    /\ \E o \in Nodes : \A p \in Nodes \ {o} : o \in aux.links[p]

\* ------------------------------------------------------------------ C31
\* The changes the plan holds for an object.
ChangesOf(o) == {ch \in exec.plan : ch.obj = o}

PlanMade == exec.phase \in {"insert", "update", "refetch"}

\* C31 as stated: the UPDATE of an object never carries a multi link as a
\* whole, only its added and removed items.
C31_Original ==
    PlanMade =>
        \A ch \in exec.plan : ch.kind = "UPDATE" => ~ch.assign

\* C31: an object without identity has one change, an INSERT, with every
\* property and link set on it (the assigned link as `:=` of its items) and
\* the items added to its link; an object with identity that has changed
\* fields or pending items has one change, an UPDATE, whose properties are
\* changed fields, which carries the link as `:=` of the items assigned
\* exactly when the link is a changed field, and otherwise only the added
\* and removed items as `+=` and `-=`; an object with identity, no changed
\* field and no pending item has no change.
C31_DeltaContent ==
    PlanMade =>
        \A o \in exec.visited :
            LET e == ent[o]
            IN  /\ e.id = 0 =>
                     \E ch \in exec.plan :
                        /\ ChangesOf(o) = {ch}
                        /\ ch.kind = "INSERT"
                        /\ ch.props = e.ptrs_set \cap {"name"}
                        /\ ch.assign <=> "friends" \in e.ptrs_set
                        /\ ch.assign => ch.value = e.base
                        /\ ch.add = e.added
                /\ (e.id # 0 /\ DirtyPointers(e) # {}) =>
                     \E ch \in exec.plan :
                        /\ ChangesOf(o) = {ch}
                        /\ ch.kind = "UPDATE"
                        /\ IncludedPointers(ch) = DirtyPointers(e)
                        /\ ch.props = e.changed \cap {"name"}
                        /\ ch.assign <=> "friends" \in e.changed
                        /\ ch.value = IF ch.assign THEN e.base ELSE {}
                        /\ ch.add = e.added
                        /\ ch.remove = e.removed
                /\ (e.id # 0 /\ DirtyPointers(e) = {}) => ChangesOf(o) = {}

\* A plan with the UPDATE of an object whose link was assigned to a
\* non-empty list, and a visited object with identity and nothing to save.
C31_Witness ==
    /\ PlanMade
    /\ \E ch \in exec.plan :
          ch.kind = "UPDATE" /\ ch.assign /\ ch.value # {}
    /\ \E o \in exec.visited :
          ent[o].id # 0 /\ DirtyPointers(ent[o]) = {} /\ ChangesOf(o) = {}

\* ------------------------------------------------------------------ C32
\* The change a step sends to the store, if it sends one.
IssuedNow == aux'.issued \ aux.issued

FailStep == outcome # "failed" /\ outcome' = "failed"

\* C33: the step in which a batch or the refetch query fails ends the call:
\* no batch is executed with it, the executor is dropped and commit has not
\* begun; a failure in the insert round comes before any UPDATE batch and
\* any refetch, a failure in the update round before any refetch; and once
\* the call has failed no batch and no refetch query is executed until the
\* caller starts another call.
C33_NoRoundAfterFailure ==
    [][/\ FailStep =>
             /\ IssuedKeys = {}
             /\ exec'.phase = "idle"
             /\ exec'.issued = exec.issued
             /\ ~exec'.commit_started
             /\ exec.phase = "insert" =>
                   /\ exec.done \subseteq Batches(exec.plan, "INSERT")
                   /\ exec.refetches = 0
             /\ exec.phase = "update" => exec.refetches = 0
       /\ outcome = "failed" =>
             /\ exec.phase = "idle"
             /\ exec'.phase \in {"idle", "plan"}
             /\ exec'.issued <= exec.issued
             /\ exec'.refetches = 0]_vars

\* A sync failed in a round after a batch had been executed, on a graph
\* with a new object and a changed object with identity.
C33_Witness ==
    /\ outcome = "failed"
    /\ exec.error = "none"
    /\ exec.issued = 1
    /\ last.op = "sync"
    /\ \E o \in Slots : snap[o].ctor # "absent" /\ snap[o].id = 0
    /\ \E o \in Slots : snap[o].id # 0 /\ DirtyPointers(snap[o]) # {}

CacheBelongs(c) ==
    LET e == Introspected(c, c.cached_orig_return_type)
    IN  /\ c.cached_return_type = e.cached_return_type
        /\ c.cached_return_type_proxy = e.cached_return_type_proxy
        /\ c.cached_return_type_subcodecs = e.cached_return_type_subcodecs
        /\ c.cached_tname_map = e.cached_tname_map
        /\ \/ c.cached_return_type_dlists = e.cached_return_type_dlists
           \/ /\ c.cached_orig_return_type = "None"
              /\ c.cached_return_type_dlists = <<>>

\* The last call was decode of a record of the right size with a model
\* return type, on a codec that has a __tname__ field and a cache that
\* belongs to that return type.
TaggedModelCall ==
    /\ aux.model = "codec"
    /\ aux.out.status # "none"
    /\ IsGelModel(aux.call.return_type)
    /\ aux.codec.cached_orig_return_type = aux.call.return_type
    /\ CacheBelongs(aux.codec)
    /\ IndexOf(aux.codec.names, "__tname__") < Len(aux.codec.names)
    /\ aux.call.buf.count = Len(aux.codec.names)

\* C37: decode with a model return type resolves the class by the type
\* tag.  With more than one canonical type possible the result is of the
\* class the record's __tname__ is mapped to, a __tname__ the map does not
\* have gives the declared return type, and an empty __tname__ raises; with
\* one canonical type the result is of the declared type.  For a
\* link-property proxy the result is the proxy around the constructed
\* object with the decoded link properties, otherwise it has no proxy.
C37_TypeTagResolution ==
    TaggedModelCall =>
        LET T == aux.call.return_type
            rt == IF proxy_of(T) # "None" THEN proxy_of(T) ELSE T
            names == aux.codec.names
            elems == aux.call.buf.elems
            tn == elems[IndexOf(names, "__tname__") + 1]
            poly == Cardinality(CanonicalDescendants(rt)) > 1
        IN  /\ (poly /\ tn = NULL) => aux.out.status = "error"
            /\ aux.out.error = "RuntimeError" => (poly /\ tn = NULL)
            /\ aux.out.status = "ok" =>
                 /\ aux.out.cls = IF poly /\ tn \in CanonicalDescendants(rt)
                                  THEN tn ELSE rt
                 /\ aux.out.proxy = IF proxy_of(T) # "None" THEN T
                                    ELSE "None"
                 /\ proxy_of(T) # "None" =>
                      /\ DOMAIN aux.out.lprops =
                           {LinkPropKey(names[i]) :
                              i \in {j \in DOMAIN names :
                                        IsLinkProp(names[j])}}
                      /\ \A i \in DOMAIN names :
                           IsLinkProp(names[i]) =>
                             aux.out.lprops[LinkPropKey(names[i])] = elems[i]

\* A record tagged Admin was decoded for the proxy of User: the result is
\* the proxy around an Admin, with the link property of the record.
C37_Witness ==
    /\ TaggedModelCall
    /\ aux.call.return_type = "UserLink"
    /\ aux.out.status = "ok"
    /\ aux.out.cls = "Admin"
    /\ aux.out.proxy = "UserLink"
    /\ "since" \in DOMAIN aux.out.lprops
    /\ aux.out.lprops["since"] = "s1"

\* ------------------------------------------------------------------ C38

\* The last call was decode with a model return type on a codec whose cache
\* belongs to that return type.
ModelCall ==
    /\ aux.model = "codec"
    /\ aux.out.status # "none"
    /\ IsGelModel(aux.call.return_type)
    /\ aux.codec.cached_orig_return_type = aux.call.return_type
    /\ CacheBelongs(aux.codec)

\* C38: decode with a model return type skips no element but the type tag.
\* In a result, every field of the codec other than __tname__ holds the
\* element of the record (None for a NULL element): a link-property field
\* in the link-property record, every other field in the object.  A record
\* whose element count is not the codec's field count is rejected.
C38_EveryElementPlaced ==
    ModelCall =>
        LET names == aux.codec.names
            elems == aux.call.buf.elems
        IN  /\ aux.call.buf.count # Len(names) => aux.out.status = "error"
            /\ aux.out.status = "ok" =>
                 \A i \in DOMAIN names :
                    CASE names[i] = "__tname__" -> TRUE
                      [] IsLinkProp(names[i]) ->
                           /\ LinkPropKey(names[i]) \in DOMAIN aux.out.lprops
                           /\ aux.out.lprops[LinkPropKey(names[i])] = elems[i]
                      [] OTHER ->
                           /\ names[i] \in DOMAIN aux.out.fields
                           /\ aux.out.fields[names[i]].items = elems[i]

\* A record of a codec that has no __tname__ field was decoded as a User:
\* the result has the name and lacks the id the record holds.
C38_Witness ==
    /\ ModelCall
    /\ aux.codec.names = <<"id", "name">>
    /\ aux.call.return_type = "User"
    /\ aux.call.buf.elems[1] = "i1"
    /\ aux.out.status = "ok"
    /\ "name" \in DOMAIN aux.out.fields
    /\ "id" \notin DOMAIN aux.out.fields

\* ------------------------------------------------------------------ C40

\* C40: after any sequence of decode calls on one codec, those in which
\* adapt_to_return_type raises included, the cached return type, proxy
\* type, sub-codec types, collection factories and type-name map belong to
\* the return type recorded in cached_orig_return_type; and a call redoes
\* the introspection exactly when its return type is not the recorded one.
C40_CacheConsistency ==
    /\ [](aux.model = "codec" => CacheBelongs(aux.codec))
    /\ [][aux'.out.redone =
             (aux'.call.return_type # aux.codec.cached_orig_return_type)]_vars

\* After decode(User), a decode(Half) that raised and decode(User) again,
\* the record tagged with an unmapped type name is constructed as a Half:
\* the cached return type is Half while the recorded one is User.
C40_Witness ==
    /\ aux.model = "codec"
    /\ aux.call.return_type = "User"
    /\ aux.codec.cached_orig_return_type = "User"
    /\ aux.codec.cached_return_type = "Half"
    /\ ~aux.out.redone
    /\ aux.out.status = "ok"
    /\ aux.out.cls = "Half"

\* ------------------------------------------------------------------ C39

\* The arguments have a value for field i that encode_args accepts.
Acceptable(args, i) ==
    /\ ArgNames[i] \in DOMAIN args
    /\ args[ArgNames[i]] # "bad"
    /\ args[ArgNames[i]] = "None" => ArgCards[i] = "AT_MOST_ONE"

\* The call that made the step left the output buffer as it was if it
\* raised, and appended one whole record, its length and element count
\* first, if it returned.
BufferWrittenLast ==
    LET old == Len(aux.buf)
    IN  /\ aux'.error # "" => aux'.buf = aux.buf
        /\ aux'.error = "" =>
             /\ Len(aux'.buf) >= old + 2
             /\ SubSeq(aux'.buf, 1, old) = aux.buf
             /\ aux'.buf[old + 1] = 4 + 4 * (Len(aux'.buf) - old - 2)
             /\ aux'.buf[old + 2] =
                   IF aux'.call.op = "encode_args" THEN Len(ArgNames)
                   ELSE Len(aux'.call.items)

\* C39 as stated: encode_args rejects a dict whose size is not the number
\* of fields or that lacks a field name with QueryArgumentError, and None
\* for an argument of cardinality ONE or AT_LEAST_ONE with
\* InvalidArgumentError; a call of encode or encode_args that raises has
\* written nothing to the output buffer.
C39_Original ==
    [][aux'.model = "encode" =>
         LET args == aux'.call.args
             err == aux'.error
             sized == Cardinality(DOMAIN args) = Len(ArgNames)
             named == \A i \in DOMAIN ArgNames : ArgNames[i] \in DOMAIN args
         IN  /\ BufferWrittenLast
             /\ (aux'.call.op = "encode_args" /\ ~aux.is_sparse) =>
                  /\ (~sized \/ ~named) => err = "QueryArgumentError"
                  /\ (sized /\ named
                        /\ \E i \in DOMAIN ArgNames :
                              /\ args[ArgNames[i]] = "None"
                              /\ ArgCards[i] \in {"ONE", "AT_LEAST_ONE"})
                       => err = "InvalidArgumentError"]_vars

\* C39: encode_args rejects a dict whose size is not the number of fields
\* with QueryArgumentError.  A dict of the right size that lacks a field
\* name is rejected: with QueryArgumentError when the arguments of all
\* fields before the first missing one are accepted, with
\* InvalidArgumentError only when one of them is not.  A dict with every
\* field that has None for an argument of cardinality ONE or AT_LEAST_ONE
\* is rejected with InvalidArgumentError, and a dict with an acceptable
\* argument for every field is encoded.  A call of encode or encode_args
\* that raises has written nothing to the output buffer, which is written
\* only after all elements have been encoded.
C39_EncodeErrors ==
    [][aux'.model = "encode" =>
         LET args == aux'.call.args
             err == aux'.error
             idx == DOMAIN ArgNames
             sized == Cardinality(DOMAIN args) = Len(ArgNames)
             missing == {i \in idx : ArgNames[i] \notin DOMAIN args}
             before == {i \in idx : \A j \in missing : i < j}
         IN  /\ BufferWrittenLast
             /\ (aux'.call.op = "encode_args" /\ ~aux.is_sparse) =>
                  /\ ~sized => err = "QueryArgumentError"
                  /\ (sized /\ missing # {}) =>
                       /\ err \in {"QueryArgumentError",
                                   "InvalidArgumentError"}
                       /\ (\A i \in before : Acceptable(args, i))
                             => err = "QueryArgumentError"
                       /\ err = "InvalidArgumentError"
                             => \E i \in before : ~Acceptable(args, i)
                  /\ (sized /\ missing = {}
                        /\ \E i \in idx :
                              /\ args[ArgNames[i]] = "None"
                              /\ ArgCards[i] \in {"ONE", "AT_LEAST_ONE"})
                       => err = "InvalidArgumentError"
                  /\ (sized /\ \A i \in idx : Acceptable(args, i))
                       => err = ""]_vars

\* After one record was written, encode_args was given a value for the first
\* argument and None for the AT_LEAST_ONE argument: the call raised after
\* the first element had been encoded.
C39_Witness ==
    /\ aux.model = "encode"
    /\ ~aux.is_sparse
    /\ aux.encoded = 1
    /\ aux.buf # <<>>
    /\ aux.call.op = "encode_args"
    /\ DOMAIN aux.call.args = {"a", "b", "c"}
    /\ aux.call.args["a"] = "v1"
    /\ aux.call.args["c"] = "None"
    /\ aux.error = "InvalidArgumentError"

====
